---- MODULE Spec2Model ----
(***************************************************************************)
(* Extension staging, conflict classification, resolution policy and the   *)
(* entity merge engine of techtriage (ExtensionManager + Database).        *)
(*                                                                         *)
(* One manager pass is modelled at the granularity of its await points:    *)
(* every store request (select, create, delete, query) is one step.  The   *)
(* store is the only state that survives a pass or a process exit.         *)
(***************************************************************************)
EXTENDS Integers, Sequences, FiniteSets, TLC

(***************************************************************************)
(* Bounds of the model and the small input universes.                      *)
(***************************************************************************)
\* Store requests that may fail during one manager pass.
MaxFaults == 1

ExtensionIds == {"e1", "e2"}
ManufacturerIds == {"m1", "m2"}
CategoryIds == {"c1"}
DeviceIds == {"d1"}
DisplayNames == {"n1", "n2"}
\* semver::Version as <<major, minor, patch>>; the two versions the tests use.
Versions == {<<1, 0, 0>>, <<1, 0, 1>>}

\* Key order of a table scan (SELECT returns records ordered by record id).
ExtensionIdOrder == <<"builtin", "e1", "e2">>

EXTENSION_TABLE_NAME == "extensions"
DEVICE_MANUFACTURER_TABLE_NAME == "device_manufacturers"
DEVICE_CATEGORY_TABLE_NAME == "device_categories"
DEVICE_TABLE_NAME == "devices"

(***************************************************************************)
(* Option values.                                                          *)
(***************************************************************************)
None == [some |-> FALSE]
Some(x) == [some |-> TRUE, value |-> x]

(***************************************************************************)
(* Conversions between the common models and the store's records.          *)
(***************************************************************************)
Digits == <<"0", "1", "2", "3", "4", "5", "6", "7", "8", "9">>

\* Version::to_string: "major.minor.patch", as a sequence of characters.
VersionToString(v) == <<Digits[v[1] + 1], ".", Digits[v[2] + 1], ".", Digits[v[3] + 1]>>

DigitValue(c) == CHOOSE n \in 0..9 : Digits[n + 1] = c

IsDigit(c) == \E n \in 0..9 : Digits[n + 1] = c

\* Version::parse / Version::from_str: None when the text is no semver.
VersionParse(s) ==
    IF /\ Len(s) = 5
       /\ s[2] = "."
       /\ s[4] = "."
       /\ IsDigit(s[1]) /\ IsDigit(s[3]) /\ IsDigit(s[5])
    THEN Some(<<DigitValue(s[1]), DigitValue(s[3]), DigitValue(s[5])>>)
    ELSE None

\* From<&UniqueID> for Thing: a record link names its table and the string id.
Thing(table, id) == [tb |-> table, id |-> id]

\* TryFrom<Thing> for a UniqueID: keeps the string id, whatever the table.
IdFromThing(thing) == thing.id

\* Faulty variant of MetadataPushRecord: the record is written with version 1.0.0.
MetadataPushRecord_fixed_version(metadata) ==
    [id |-> Thing(EXTENSION_TABLE_NAME, metadata.id),
     display_name |-> metadata.display_name,
     version |-> <<"1", ".", "0", ".", "0">>]

\* From<&InventoryExtensionMetadata> for InventoryExtensionMetadataPushRecord
MetadataPushRecord(metadata) ==
    [id |-> Thing(EXTENSION_TABLE_NAME, metadata.id),
     display_name |-> metadata.display_name,
     version |-> VersionToString(metadata.version)]

\* TryFrom<InventoryExtensionMetadataPullRecord> for InventoryExtensionMetadata
MetadataFromRecord(record) ==
    LET v == VersionParse(record.version)
    IN  IF v.some
        THEN Some([id |-> IdFromThing(record.id),
                   display_name |-> record.display_name,
                   version |-> v.value])
        ELSE None

\* From<&DeviceManufacturer> for DeviceManufacturerPushRecord.  The owners are
\* written as an array of record links in the hash set's iteration order; the
\* model keeps the array as the set of its elements.
ManufacturerPushRecord(manufacturer) ==
    [id |-> Thing(DEVICE_MANUFACTURER_TABLE_NAME, manufacturer.id),
     display_name |-> manufacturer.display_name,
     extensions |-> {Thing(EXTENSION_TABLE_NAME, e) : e \in manufacturer.extensions}]

\* TryFrom<DeviceManufacturerPullRecord> for DeviceManufacturer
ManufacturerFromRecord(record) ==
    [id |-> IdFromThing(record.id),
     display_name |-> record.display_name,
     extensions |-> {IdFromThing(t) : t \in record.extensions}]

\* From<&DeviceCategory> for DeviceCategoryPushRecord
CategoryPushRecord(category) ==
    [id |-> Thing(DEVICE_CATEGORY_TABLE_NAME, category.id),
     display_name |-> category.display_name,
     extensions |-> {Thing(EXTENSION_TABLE_NAME, e) : e \in category.extensions}]

\* TryFrom<DeviceCategoryPullRecord> for DeviceCategory
CategoryFromRecord(record) ==
    [id |-> IdFromThing(record.id),
     display_name |-> record.display_name,
     extensions |-> {IdFromThing(t) : t \in record.extensions}]

\* From<&Device> for DevicePushRecord, with the owner set Device has in
\* models/common and Database::add_device merges (the model identifier lists
\* are carried through unchanged by every operation and are left out).
DevicePushRecord(device) ==
    [id |-> Thing(DEVICE_TABLE_NAME, device.id),
     display_name |-> device.display_name,
     manufacturer |-> Thing(DEVICE_MANUFACTURER_TABLE_NAME, device.manufacturer),
     category |-> Thing(DEVICE_CATEGORY_TABLE_NAME, device.category),
     extensions |-> {Thing(EXTENSION_TABLE_NAME, e) : e \in device.extensions}]

\* TryFrom<DevicePullRecord> for Device
DeviceFromRecord(record) ==
    [id |-> IdFromThing(record.id),
     display_name |-> record.display_name,
     manufacturer |-> IdFromThing(record.manufacturer),
     category |-> IdFromThing(record.category),
     extensions |-> {IdFromThing(t) : t \in record.extensions}]

(***************************************************************************)
(* Extension files and their conversion into extension descriptors.        *)
(***************************************************************************)
ManufacturerToml(id, name) == [id |-> id, display_name |-> name]

CategoryToml(id, name) == [id |-> id, display_name |-> name]

DeviceToml(id, name, manufacturer, category) ==
    [id |-> id, display_name |-> name, manufacturer |-> manufacturer, category |-> category]

ExtensionToml(id, name, version, contents) ==
    [extension_id |-> id,
     extension_display_name |-> name,
     extension_version |-> version,
     device_manufacturers |-> contents.device_manufacturers,
     device_categories |-> contents.device_categories,
     devices |-> contents.devices]

Contents(manufacturers, categories, devices) ==
    [device_manufacturers |-> manufacturers,
     device_categories |-> categories,
     devices |-> devices]

\* Extension::test_single(_, 1): one manufacturer, one category and one device
\* that refers to both.
SingleContents ==
    Contents(<<ManufacturerToml("m1", "n1")>>,
             <<CategoryToml("c1", "n1")>>,
             <<DeviceToml("d1", "n1", "m1", "c1")>>)

\* Content plans <<first file of e1, second file of e1, file of e2>>: what the
\* files of one extensions directory contribute.
ContentPlans ==
    { \* the second file of e1 drops everything the first contributed; e2
      \* shares the manufacturer and the category under other display names
      <<SingleContents,
        Contents(<<ManufacturerToml("m2", "n1")>>, <<>>, <<>>),
        Contents(<<ManufacturerToml("m1", "n2")>>, <<CategoryToml("c1", "n2")>>, <<>>)>>,
      \* the second file of e1 keeps the shared manufacturer; e2 shares the
      \* device and refers to a manufacturer it does not contribute
      <<SingleContents,
        Contents(<<ManufacturerToml("m1", "n2"), ManufacturerToml("m2", "n1")>>,
                 <<CategoryToml("c1", "n1")>>,
                 <<DeviceToml("d1", "n2", "m2", "c1")>>),
        Contents(<<ManufacturerToml("m2", "n2")>>,
                 <<CategoryToml("c1", "n1")>>,
                 <<DeviceToml("d1", "n1", "m1", "c1")>>)>>,
      \* files that list one manufacturer id twice
      <<Contents(<<ManufacturerToml("m1", "n1")>>, <<>>, <<>>),
        Contents(<<ManufacturerToml("m1", "n1"), ManufacturerToml("m1", "n2")>>, <<>>, <<>>),
        Contents(<<ManufacturerToml("m1", "n2"), ManufacturerToml("m1", "n2")>>, <<>>, <<>>)>>,
      \* the second file of e1 contributes what the first does; e2 is empty
      <<SingleContents, SingleContents, Contents(<<>>, <<>>, <<>>)>> }

\* The directories of extension files a run can find: two files of e1 (the
\* second with either version and either display name) and one file of e2.
Catalogs ==
    { { ExtensionToml("e1", "n1", VersionToString(<<1, 0, 0>>), plan[1]),
        ExtensionToml("e1", name, VersionToString(version), plan[2]),
        ExtensionToml("e2", "n1", VersionToString(<<1, 0, 0>>), plan[3]) } :
      name \in DisplayNames, version \in Versions, plan \in ContentPlans }

\* From<InventoryExtensionToml> for InventoryExtension: every entity is owned
\* by the extension of the file; a version that is no semver panics (unwrap).
InventoryExtensionFromToml(toml) ==
    LET id == toml.extension_id
        manufacturers == toml.device_manufacturers
        categories == toml.device_categories
        devs == toml.devices
    IN  [metadata |-> [id |-> id,
                       display_name |-> toml.extension_display_name,
                       version |-> VersionParse(toml.extension_version).value],
         device_manufacturers |->
             [i \in DOMAIN manufacturers |->
                 [id |-> manufacturers[i].id,
                  display_name |-> manufacturers[i].display_name,
                  extensions |-> {id}]],
         device_categories |->
             [i \in DOMAIN categories |->
                 [id |-> categories[i].id,
                  display_name |-> categories[i].display_name,
                  extensions |-> {id}]],
         devices |->
             [i \in DOMAIN devs |->
                 [id |-> devs[i].id,
                  display_name |-> devs[i].display_name,
                  manufacturer |-> devs[i].manufacturer,
                  category |-> devs[i].category,
                  extensions |-> {id}]]]

\* InventoryExtension::builtin(): the reserved manufacturers and categories.
builtin ==
    LET id == "builtin"
        owned(key, name) == [id |-> key, display_name |-> name, extensions |-> {id}]
    IN  [metadata |-> [id |-> id, display_name |-> "Built-in", version |-> <<0, 0, 0>>],
         device_manufacturers |->
             <<owned("apple", "Apple"), owned("samsung", "Samsung"),
               owned("google", "Google"), owned("motorola", "Motorola"),
               owned("dell", "Dell"), owned("hp", "HP"), owned("lenovo", "Lenovo")>>,
         device_categories |->
             <<owned("phone", "Phone"), owned("tablet", "Tablet"),
               owned("console", "console"), owned("laptop", "Laptop"),
               owned("desktop", "Desktop")>>,
         devices |-> <<>>]

(***************************************************************************)
(* Store tables: functions from the record key to the record.              *)
(***************************************************************************)
EmptyTable == <<>>

EmptyDatabase ==
    [extensions |-> EmptyTable,
     device_manufacturers |-> EmptyTable,
     device_categories |-> EmptyTable,
     devices |-> EmptyTable]

\* Faulty variant of Insert: the record is not stored.
Insert_nothing(table, record) == table

\* CREATE table CONTENT record (the caller has checked the key is free).
Insert(table, record) == (record.id.id :> record) @@ table

\* DELETE table:key
Delete(table, key) == [k \in DOMAIN table \ {key} |-> table[k]]

\* Faulty variant of Select: the read never finds a record.
Select_misses(table, key) == None

\* SELECT of one record: None when the key is absent.
Select(table, key) == IF key \in DOMAIN table THEN Some(table[key]) ELSE None

(***************************************************************************)
(* State.                                                                  *)
(***************************************************************************)
\* The two override flags main reads from the command line.
Flags(auto_reload, auto_handle) == [auto_reload |-> auto_reload, auto_handle |-> auto_handle]

NoFlags == Flags(FALSE, FALSE)

VARIABLES
    catalog,            \* the extension files of ./extensions in this run
    args,               \* main: the auto-reload and auto-handle flags of the run
    unread,             \* ExtensionManager::new: the directory entries not yet visited
    db,                 \* the store: one table per record kind
    pc,                 \* where the manager is: idle, staging, a step of load_extensions, done
    handler_mode,       \* ExtensionManager.handler_mode
    staged_extensions,  \* ExtensionManager.staged_extensions
    stage_result,       \* what the last stage_extension call returned
    stage_call,         \* the metadata of the extension the last stage_extension call was given
    loaded_extensions,  \* load_extensions: the metadata listed at the start, minus matches
    conflicts,          \* load_extensions: the verdicts collected so far
    should_crash,       \* load_extensions: a manual conflict is pending
    idx,                \* load_extensions: staged extensions taken from the iterator
    cur_conflict,       \* load_extensions: the verdict of the extension being reloaded
    kind,               \* load_extension: the entity kind being upserted
    tasks,              \* load_extension: the upsert futures handed to join_all
    outcome,            \* how the last operation ended
    faults,             \* store requests that failed in this pass
    db_at_start,        \* history: the store when the operation began
    db_at_classify,     \* history: the store when the current extension was classified
    db_at_load,         \* history: the store when load_extension was entered
    decisions,          \* history: what the pass logged for each staged extension
    writers             \* history: extensions a store write was issued for in this pass

vars == <<catalog, args, unread, db, pc, handler_mode, staged_extensions, stage_result, stage_call,
          loaded_extensions, conflicts, should_crash, idx, cur_conflict, kind,
          tasks, outcome, faults, db_at_start, db_at_classify, db_at_load, decisions,
          writers>>

pass_vars == <<loaded_extensions, conflicts, should_crash, idx, cur_conflict>>

history_vars == <<db_at_start, db_at_classify, db_at_load, decisions, writers>>

Running == [kind |-> "running"]

Init ==
    /\ catalog \in Catalogs
    /\ args = NoFlags
    /\ unread = {}
    /\ db = EmptyDatabase
    /\ pc = "idle"
    /\ handler_mode = "Manual"
    /\ staged_extensions = <<>>
    /\ stage_result = None
    /\ stage_call = None
    /\ loaded_extensions = <<>>
    /\ conflicts = <<>>
    /\ should_crash = FALSE
    /\ idx = 0
    /\ cur_conflict = None
    /\ kind = "none"
    /\ tasks = <<>>
    /\ outcome = Running
    /\ faults = 0
    /\ db_at_start = EmptyDatabase
    /\ db_at_classify = EmptyDatabase
    /\ db_at_load = EmptyDatabase
    /\ decisions = <<>>
    /\ writers = {}

(***************************************************************************)
(* Context and manager construction, staging.                              *)
(***************************************************************************)
\* Context::new: the override the two flags select ("panic" when both are set).
ContextNew(auto_reload, auto_handle) ==
    CASE ~auto_reload /\ ~auto_handle -> None
      [] auto_reload /\ ~auto_handle -> Some("Load")
      [] ~auto_reload /\ auto_handle -> Some("Handle")
      [] OTHER -> Some("panic")

\* Faulty variant of HandlerModeFrom: the two overrides are swapped.
HandlerModeFrom_swapped(override_mode) ==
    IF override_mode.some
    THEN IF override_mode.value = "Load" THEN "Auto" ELSE "ForceReload"
    ELSE "Manual"

\* From<&Option<Override>> for HandlerMode
HandlerModeFrom(override_mode) ==
    IF override_mode.some
    THEN IF override_mode.value = "Load" THEN "ForceReload" ELSE "Auto"
    ELSE "Manual"

\* ExtensionManager::base_with_context: a manager with nothing staged.  A new
\* manager is made at startup and again by every later run against the store.
BaseWithContext(auto_reload, auto_handle) ==
    /\ pc \in {"idle", "done"}
    /\ ContextNew(auto_reload, auto_handle) # Some("panic")
    /\ pc' = "staging"
    /\ handler_mode' = HandlerModeFrom(ContextNew(auto_reload, auto_handle))
    /\ staged_extensions' = <<>>
    /\ stage_result' = None
    /\ stage_call' = None
    /\ loaded_extensions' = <<>>
    /\ conflicts' = <<>>
    /\ should_crash' = FALSE
    /\ idx' = 0
    /\ cur_conflict' = None
    /\ kind' = "none"
    /\ tasks' = <<>>
    /\ outcome' = Running
    /\ faults' = 0
    /\ db_at_start' = db
    /\ db_at_classify' = db
    /\ db_at_load' = db
    /\ decisions' = <<>>
    /\ writers' = {}
    /\ args' = Flags(auto_reload, auto_handle)
    /\ UNCHANGED <<catalog, unread, db>>

\* Context::new with both flags set panics: the process ends before a store
\* is connected or a manager exists, so the run has no handler mode.
ContextNewPanics(auto_reload, auto_handle) ==
    /\ pc \in {"idle", "done"}
    /\ ContextNew(auto_reload, auto_handle) = Some("panic")
    /\ args' = Flags(auto_reload, auto_handle)
    /\ pc' = "idle"
    /\ outcome' = [kind |-> "panic"]
    /\ handler_mode' = "none"
    /\ staged_extensions' = <<>>
    /\ stage_result' = None
    /\ stage_call' = None
    /\ loaded_extensions' = <<>>
    /\ conflicts' = <<>>
    /\ should_crash' = FALSE
    /\ idx' = 0
    /\ cur_conflict' = None
    /\ kind' = "none"
    /\ tasks' = <<>>
    /\ faults' = 0
    /\ db_at_start' = db
    /\ db_at_classify' = db
    /\ db_at_load' = db
    /\ decisions' = <<>>
    /\ writers' = {}
    /\ UNCHANGED <<catalog, unread, db>>

\* Faulty variant of already_contains: true as soon as anything is staged.
already_contains_any(staged, extension) == staged # <<>>

\* ExtensionManager::already_contains
already_contains(staged, extension) ==
    \E i \in DOMAIN staged : staged[i].metadata.id = extension.metadata.id

\* StageConflict::new: the conflict keeps the metadata it is given.
StageConflictNew(metadata) == [metadata |-> metadata]

\* Faulty variant of ConflictMetadata: the metadata of the extension that is
\* staged under the id.
ConflictMetadata_staged(staged, extension) ==
    staged[CHOOSE i \in DOMAIN staged : staged[i].metadata.id = extension.metadata.id].metadata

\* The metadata stage_extension hands to StageConflict::new: &extension.metadata,
\* that of the extension passed in.
ConflictMetadata(staged, extension) == extension.metadata

\* ExtensionManager::stage_extension
StageExtension(extension) ==
    /\ pc = "staging"
    /\ IF ~already_contains(staged_extensions, extension)
       THEN /\ staged_extensions' = Append(staged_extensions, extension)
            /\ stage_result' = None
       ELSE /\ staged_extensions' = staged_extensions
            /\ stage_result' =
                   Some(StageConflictNew(ConflictMetadata(staged_extensions, extension)))
    /\ stage_call' = Some(extension.metadata)
    /\ UNCHANGED <<catalog, args, unread, db, pc, handler_mode, kind, tasks, outcome, faults>>
    /\ UNCHANGED pass_vars
    /\ UNCHANGED history_vars

(***************************************************************************)
(* Conflict classification.                                                *)
(***************************************************************************)
\* Faulty variant of FirstMatch: the scan stops at the first entry, whatever its id.
FirstMatch_first_entry(loaded, id) == IF loaded # <<>> THEN 1 ELSE 0

\* Position of the first entry of loaded whose id is the given one, 0 if none.
FirstMatch(loaded, id) ==
    IF \E i \in DOMAIN loaded : loaded[i].id = id
    THEN CHOOSE i \in DOMAIN loaded :
             /\ loaded[i].id = id
             /\ \A j \in 1..(i - 1) : loaded[j].id # id
    ELSE 0

\* Faulty variant of RemoveAt: the first entry is removed, whatever the index.
RemoveAt_first(seq, i) == Tail(seq)

\* Faulty variant of RemoveAt: the entry and every entry after it are removed.
RemoveAt_truncates(seq, i) == SubSeq(seq, 1, i - 1)

\* Vec::remove(i)
RemoveAt(seq, i) == [j \in 1..(Len(seq) - 1) |-> IF j < i THEN seq[j] ELSE seq[j + 1]]

\* Faulty variant of LoadConflictNew: same_version also requires the staged
\* extension to contribute exactly one manufacturer.
LoadConflictNew_inspects_contents(staged_extension, loaded) ==
    LET i == FirstMatch(loaded, staged_extension.metadata.id)
    IN  IF i = 0
        THEN [conflict |-> None, loaded_extensions |-> loaded]
        ELSE [conflict |->
                  Some([id |-> loaded[i].id,
                        same_version |->
                            /\ staged_extension.metadata.version = loaded[i].version
                            /\ Len(staged_extension.device_manufacturers) = 1]),
              loaded_extensions |-> RemoveAt(loaded, i)]

\* LoadConflict::new: the verdict, and loaded_extensions as the call leaves it.
LoadConflictNew(staged_extension, loaded) ==
    LET i == FirstMatch(loaded, staged_extension.metadata.id)
    IN  IF i = 0
        THEN [conflict |-> None, loaded_extensions |-> loaded]
        ELSE [conflict |->
                  Some([id |-> loaded[i].id,
                        same_version |-> staged_extension.metadata.version = loaded[i].version]),
              loaded_extensions |-> RemoveAt(loaded, i)]

\* Faulty variant of should_reload: every conflict asks for a reload.
should_reload_always(conflict) == TRUE

\* LoadConflict::should_reload
should_reload(conflict) == ~conflict.same_version

(***************************************************************************)
(* Store operations of Database.                                           *)
(***************************************************************************)
\* Database::list_extensions: every metadata record in key order, converted;
\* None when a record does not convert.
ListExtensions(d) ==
    LET keys == SelectSeq(ExtensionIdOrder, LAMBDA k : k \in DOMAIN d.extensions)
        converted == [i \in DOMAIN keys |-> MetadataFromRecord(d.extensions[keys[i]])]
    IN  IF \A i \in DOMAIN converted : converted[i].some
        THEN Some([i \in DOMAIN converted |-> converted[i].value])
        ELSE None

\* Faulty variant of DeleteSoleOwned: every record with a single owner is deleted.
DeleteSoleOwned_single_owner(table, link) ==
    [k \in {x \in DOMAIN table : Cardinality(table[x].extensions) # 1} |-> table[k]]

\* Faulty variant of DeleteSoleOwned: the delete removes no record.
DeleteSoleOwned_none(table, link) == table

\* Faulty variant of DeleteSoleOwned: WHERE extensions CONTAINS link.
DeleteSoleOwned_any_owner(table, link) ==
    [k \in {x \in DOMAIN table : link \notin table[x].extensions} |-> table[k]]

\* DELETE table WHERE extensions = [link]
DeleteSoleOwned(table, link) ==
    [k \in {x \in DOMAIN table : table[x].extensions # {link}} |-> table[k]]

\* Faulty variant of DeleteMetadata: the delete removes no record.
DeleteMetadata_none(table, link) == table

\* DELETE extensions WHERE id = link
DeleteMetadata(table, link) ==
    [k \in {x \in DOMAIN table : table[x].id # link} |-> table[k]]

\* Faulty variant of RevokeOwner: the update leaves the device records as they are.
RevokeOwner_skips_devices(table, link) ==
    [k \in DOMAIN table |->
        IF "manufacturer" \in DOMAIN table[k]
        THEN table[k]
        ELSE [table[k] EXCEPT !.extensions = @ \ {link}]]

\* Faulty variant of RevokeOwner: the update leaves every owner array as it is.
RevokeOwner_keeps(table, link) == table

\* UPDATE table SET extensions -= [link]
RevokeOwner(table, link) ==
    [k \in DOMAIN table |-> [table[k] EXCEPT !.extensions = @ \ {link}]]

\* Faulty variant of UnloadExtension: the query changes nothing.
UnloadExtension_nothing(d, extension_id) == d

\* Faulty variant of UnloadExtension: the deletes run, the three updates do not.
UnloadExtension_deletes_only(d, extension_id) ==
    LET link == Thing(EXTENSION_TABLE_NAME, extension_id)
    IN  [extensions |-> DeleteMetadata(d.extensions, link),
         device_manufacturers |-> DeleteSoleOwned(d.device_manufacturers, link),
         device_categories |-> DeleteSoleOwned(d.device_categories, link),
         devices |-> DeleteSoleOwned(d.devices, link)]

\* Faulty variant of UnloadExtension: only the metadata record is deleted.
UnloadExtension_metadata_only(d, extension_id) ==
    [d EXCEPT !.extensions = DeleteMetadata(@, Thing(EXTENSION_TABLE_NAME, extension_id))]

\* The statements of Database::unload_extension in their order: the deletes of
\* the sole-owned records and of the metadata, then the ownership updates.
UnloadExtension(d, extension_id) ==
    LET link == Thing(EXTENSION_TABLE_NAME, extension_id)
        deleted == [extensions |-> DeleteMetadata(d.extensions, link),
                    device_manufacturers |-> DeleteSoleOwned(d.device_manufacturers, link),
                    device_categories |-> DeleteSoleOwned(d.device_categories, link),
                    devices |-> DeleteSoleOwned(d.devices, link)]
    IN  [extensions |-> deleted.extensions,
         device_manufacturers |-> RevokeOwner(deleted.device_manufacturers, link),
         device_categories |-> RevokeOwner(deleted.device_categories, link),
         devices |-> RevokeOwner(deleted.devices, link)]

\* Faulty variant of merge: the owners of the other record are dropped.
merge_keeps_own(entity, other) == entity

\* DeviceManufacturer::merge, DeviceCategory::merge, Device::merge: the owners
\* of the other record are added, every other field stays.
merge(entity, other) == [entity EXCEPT !.extensions = @ \cup other.extensions]

TableOf(d, k) ==
    CASE k = "categories" -> d.device_categories
      [] k = "manufacturers" -> d.device_manufacturers
      [] k = "devices" -> d.devices

WithTable(d, k, table) ==
    CASE k = "categories" -> [d EXCEPT !.device_categories = table]
      [] k = "manufacturers" -> [d EXCEPT !.device_manufacturers = table]
      [] k = "devices" -> [d EXCEPT !.devices = table]

PushRecord(k, entity) ==
    CASE k = "categories" -> CategoryPushRecord(entity)
      [] k = "manufacturers" -> ManufacturerPushRecord(entity)
      [] k = "devices" -> DevicePushRecord(entity)

FromRecord(k, record) ==
    CASE k = "categories" -> CategoryFromRecord(record)
      [] k = "manufacturers" -> ManufacturerFromRecord(record)
      [] k = "devices" -> DeviceFromRecord(record)

\* The entities of one kind an extension contributes.
EntitiesOf(extension, k) ==
    CASE k = "categories" -> extension.device_categories
      [] k = "manufacturers" -> extension.device_manufacturers
      [] k = "devices" -> extension.devices

\* Faulty variant of NextKind: the load returns before the devices are upserted.
NextKind_skips_devices(k) ==
    CASE k = "categories" -> "manufacturers"
      [] k = "manufacturers" -> "return"
      [] k = "devices" -> "return"

\* Database::load_extension upserts the kinds in this order, each after the
\* join_all of the one before; "return" ends the load.
NextKind(k) ==
    CASE k = "categories" -> "manufacturers"
      [] k = "manufacturers" -> "devices"
      [] k = "devices" -> "return"

\* Faulty variant of AllDone: the wait ends as soon as one future has ended.
AllDone_first(futures) == futures = <<>> \/ \E i \in DOMAIN futures : futures[i].pc = "done"

\* future::join_all(futures).await is over when every future has ended.
AllDone(futures) == \A i \in DOMAIN futures : futures[i].pc = "done"

\* One future of add_device_category / add_device_manufacturer / add_device,
\* not yet polled.
NewTask(entity) == [entity |-> entity, pc |-> "get", result |-> "pending"]

NewTasks(extension, k) ==
    LET entities == EntitiesOf(extension, k)
    IN  [i \in DOMAIN entities |-> NewTask(entities[i])]

(***************************************************************************)
(* ExtensionManager::load_extensions, one step per store request.          *)
(***************************************************************************)
\* The staged extension the loop is working on.
Current == staged_extensions[idx]

\* Faulty variant of LoopDone: the loop is left after the first staged extension.
LoopDone_after_first(taken, staged) == taken >= 1 \/ taken = Len(staged)

\* The for loop over the staged extensions ends when the iterator is used up.
LoopDone(taken, staged) == taken = Len(staged)

\* Faulty variant of ReturnOk: the verdict that was pushed last is left out.
ReturnOk_drops_last(list) ==
    [kind |-> "ok", conflicts |-> IF list = <<>> THEN list ELSE SubSeq(list, 1, Len(list) - 1)]

\* Ok(conflicts)
ReturnOk(list) == [kind |-> "ok", conflicts |-> list]

\* Faulty variant of ReturnErr: with a manual conflict pending the process is
\* stopped instead.
ReturnErr_stops_when_pending(request) ==
    IF should_crash THEN [kind |-> "exit", code |-> 5] ELSE [kind |-> "err", request |-> request]

\* Err(error) of the failed store request, through the `?`
ReturnErr(request) == [kind |-> "err", request |-> request]

\* stop(code): std::process::exit
stop(code) == [kind |-> "exit", code |-> code]

\* Faulty variant of Resolution: Auto reloads on every conflict.
Resolution_auto_reloads(mode, conflict) ==
    CASE mode = "Manual" -> "skip"
      [] mode = "Auto" -> "reload"
      [] mode = "ForceReload" -> "reload"

\* Faulty variant of Resolution: ForceReload reloads only on a version change.
Resolution_reload_on_change(mode, conflict) ==
    CASE mode = "Manual" -> "skip"
      [] mode = "Auto" -> IF should_reload(conflict) THEN "reload" ELSE "skip"
      [] mode = "ForceReload" -> IF should_reload(conflict) THEN "reload" ELSE "skip"

\* What the match on handler_mode does with a verdict: keep what is loaded
\* ("skip") or unload it and load the staged extension ("reload").
Resolution(mode, conflict) ==
    CASE mode = "Manual" -> "skip"
      [] mode = "Auto" -> IF should_reload(conflict) THEN "reload" ELSE "skip"
      [] mode = "ForceReload" -> "reload"

\* Faulty variant of SetsCrash: the Manual arm never sets the flag.
SetsCrash_never(mode, conflict) == FALSE

\* Faulty variant of SetsCrash: the Manual arm sets the flag on every conflict.
SetsCrash_any_conflict(mode, conflict) == mode = "Manual"

\* Whether the verdict sets should_crash (only the Manual arm does).
SetsCrash(mode, conflict) == mode = "Manual" /\ should_reload(conflict)

\* An `?` on a failed store request: load_extensions returns the error at once.
Abort(request) ==
    /\ pc' = "done"
    /\ outcome' = ReturnErr(request)
    /\ kind' = "none"
    /\ tasks' = <<>>

\* let mut loaded_extensions = db.list_extensions().await?;
LoadExtensionsBegin ==
    /\ pc = "staging"
    /\ LET listed == ListExtensions(db)
       IN  IF listed.some
           THEN /\ loaded_extensions' = listed.value
                /\ pc' = "classify"
                /\ UNCHANGED <<outcome, kind, tasks>>
           ELSE /\ Abort("list_extensions")
                /\ UNCHANGED loaded_extensions
    /\ stage_result' = None
    /\ stage_call' = None
    /\ db_at_start' = db
    /\ UNCHANGED <<catalog, args, unread, db, handler_mode, staged_extensions, conflicts, should_crash,
                   idx, cur_conflict, faults, db_at_classify, db_at_load, decisions,
                   writers>>

\* The select of list_extensions fails.
ListExtensionsFails ==
    /\ pc = "staging"
    /\ faults < MaxFaults
    /\ faults' = faults + 1
    /\ Abort("list_extensions")
    /\ stage_result' = None
    /\ stage_call' = None
    /\ db_at_start' = db
    /\ UNCHANGED <<catalog, args, unread, db, handler_mode, staged_extensions, db_at_classify,
                   db_at_load, decisions, writers>>
    /\ UNCHANGED pass_vars

\* The next staged extension is taken from the iterator and classified; the
\* loop runs up to its first store request (or, on a skip, to the next turn).
ClassifyNext ==
    /\ pc = "classify"
    /\ ~LoopDone(idx, staged_extensions)
    /\ idx < Len(staged_extensions)
    /\ LET staged_extension == staged_extensions[idx + 1]
           r == LoadConflictNew(staged_extension, loaded_extensions)
           id == staged_extension.metadata.id
       IN  /\ idx' = idx + 1
           /\ loaded_extensions' = r.loaded_extensions
           /\ IF ~r.conflict.some
              THEN /\ pc' = "load"
                   /\ cur_conflict' = None
                   /\ decisions' = Append(decisions, [id |-> id, decision |-> "load", conflict |-> None])
                   /\ UNCHANGED <<conflicts, should_crash>>
              ELSE /\ should_crash' = (should_crash \/ SetsCrash(handler_mode, r.conflict.value))
                   /\ decisions' = Append(decisions,
                          [id |-> id,
                           decision |-> Resolution(handler_mode, r.conflict.value),
                           conflict |-> r.conflict])
                   /\ IF Resolution(handler_mode, r.conflict.value) = "reload"
                      THEN /\ pc' = "unload"
                           /\ cur_conflict' = r.conflict
                           /\ UNCHANGED conflicts
                      ELSE /\ pc' = "classify"
                           /\ cur_conflict' = None
                           /\ conflicts' = Append(conflicts, r.conflict.value)
    /\ db_at_classify' = db
    /\ db_at_load' = db
    /\ UNCHANGED <<catalog, args, unread, db, handler_mode, staged_extensions, stage_result, stage_call, kind, tasks,
                   outcome, faults, db_at_start, writers>>

\* Database::reload_extension: self.unload_extension(&extension.metadata.id).await?
ReloadUnload ==
    /\ pc = "unload"
    /\ db' = UnloadExtension(db, Current.metadata.id)
    /\ db_at_load' = db'
    /\ writers' = writers \cup {Current.metadata.id}
    /\ pc' = "load"
    /\ UNCHANGED <<catalog, args, unread, handler_mode, staged_extensions, stage_result, stage_call, kind, tasks,
                   outcome, faults, db_at_start, db_at_classify, decisions>>
    /\ UNCHANGED pass_vars

\* The unload query of a reload fails: nothing is applied.
ReloadUnloadFails ==
    /\ pc = "unload"
    /\ faults < MaxFaults
    /\ faults' = faults + 1
    /\ Abort("unload_extension")
    /\ UNCHANGED <<catalog, args, unread, db, handler_mode, staged_extensions, stage_result, stage_call>>
    /\ UNCHANGED pass_vars
    /\ UNCHANGED history_vars

\* Database::load_extension: the metadata record is created first; the store
\* rejects a record whose key exists.  Then the category futures are built.
LoadCreateMetadata ==
    /\ pc = "load"
    /\ writers' = writers \cup {Current.metadata.id}
    /\ IF Current.metadata.id \in DOMAIN db.extensions
       THEN /\ Abort("create_metadata")
            /\ UNCHANGED db
       ELSE /\ db' = [db EXCEPT !.extensions = Insert(@, MetadataPushRecord(Current.metadata))]
            /\ pc' = "upsert"
            /\ kind' = "categories"
            /\ tasks' = NewTasks(Current, "categories")
            /\ UNCHANGED outcome
    /\ UNCHANGED <<catalog, args, unread, handler_mode, staged_extensions, stage_result, stage_call, faults,
                   db_at_start, db_at_classify, db_at_load, decisions>>
    /\ UNCHANGED pass_vars

\* The create of the metadata record fails.
LoadCreateMetadataFails ==
    /\ pc = "load"
    /\ faults < MaxFaults
    /\ faults' = faults + 1
    /\ writers' = writers \cup {Current.metadata.id}
    /\ Abort("create_metadata")
    /\ UNCHANGED <<catalog, args, unread, db, handler_mode, staged_extensions, stage_result, stage_call,
                   db_at_start, db_at_classify, db_at_load, decisions>>
    /\ UNCHANGED pass_vars

(***************************************************************************)
(* The upsert futures of one entity kind, interleaved at their awaits.     *)
(***************************************************************************)
upsert_frame == <<catalog, args, unread, handler_mode, staged_extensions, stage_result, stage_call, kind, pc,
                  outcome, db_at_start, db_at_classify, db_at_load, decisions>>

\* if let Some(existing_record) = self.get_...(&entity.id).await?
\*     { entity.merge(existing_record.try_into()?); ... }
TaskGet(i) ==
    /\ pc = "upsert"
    /\ i \in DOMAIN tasks
    /\ tasks[i].pc = "get"
    /\ LET existing_record == Select(TableOf(db, kind), tasks[i].entity.id)
       IN  tasks' = [tasks EXCEPT ![i] =
                IF existing_record.some
                THEN [@ EXCEPT !.entity = merge(@, FromRecord(kind, existing_record.value)),
                               !.pc = "remove"]
                ELSE [@ EXCEPT !.pc = "create"]]
    /\ UNCHANGED <<db, faults, writers>>
    /\ UNCHANGED upsert_frame
    /\ UNCHANGED pass_vars

\* self.remove_...(&entity.id).await?   (DELETE table:id)
TaskRemove(i) ==
    /\ pc = "upsert"
    /\ i \in DOMAIN tasks
    /\ tasks[i].pc = "remove"
    /\ db' = WithTable(db, kind, Delete(TableOf(db, kind), tasks[i].entity.id))
    /\ tasks' = [tasks EXCEPT ![i].pc = "create"]
    /\ writers' = writers \cup {Current.metadata.id}
    /\ UNCHANGED faults
    /\ UNCHANGED upsert_frame
    /\ UNCHANGED pass_vars

\* self.connection.create(table).content(push record).await?   The store
\* rejects the record when its key exists (another future created it).
TaskCreate(i) ==
    /\ pc = "upsert"
    /\ i \in DOMAIN tasks
    /\ tasks[i].pc = "create"
    /\ IF tasks[i].entity.id \in DOMAIN TableOf(db, kind)
       THEN /\ tasks' = [tasks EXCEPT ![i].pc = "done", ![i].result = "err"]
            /\ UNCHANGED db
       ELSE /\ db' = WithTable(db, kind, Insert(TableOf(db, kind), PushRecord(kind, tasks[i].entity)))
            /\ tasks' = [tasks EXCEPT ![i].pc = "done", ![i].result = "ok"]
    /\ writers' = writers \cup {Current.metadata.id}
    /\ UNCHANGED faults
    /\ UNCHANGED upsert_frame
    /\ UNCHANGED pass_vars

\* A store request of one upsert fails: its future ends with the error.
TaskFails(i) ==
    /\ pc = "upsert"
    /\ i \in DOMAIN tasks
    /\ tasks[i].pc # "done"
    /\ faults < MaxFaults
    /\ faults' = faults + 1
    /\ tasks' = [tasks EXCEPT ![i].pc = "done", ![i].result = "err"]
    /\ UNCHANGED <<db, writers>>
    /\ UNCHANGED upsert_frame
    /\ UNCHANGED pass_vars

\* future::join_all(futures).await: every future of the kind has ended; their
\* results are dropped.  The next kind's futures are built, or the load returns.
JoinAll ==
    /\ pc = "upsert"
    /\ AllDone(tasks)
    /\ IF NextKind(kind) = "return"
       THEN /\ pc' = "loaded"
            /\ kind' = "none"
            /\ tasks' = <<>>
       ELSE /\ pc' = "upsert"
            /\ kind' = NextKind(kind)
            /\ tasks' = NewTasks(Current, NextKind(kind))
    /\ UNCHANGED <<catalog, args, unread, db, handler_mode, staged_extensions, stage_result, stage_call, outcome,
                   faults>>
    /\ UNCHANGED pass_vars
    /\ UNCHANGED history_vars

\* load_extension (or reload_extension) returned Ok: the verdict of a reload
\* is pushed and the loop goes on with the next staged extension.
LoadReturn ==
    /\ pc = "loaded"
    /\ pc' = "classify"
    /\ conflicts' = IF cur_conflict.some THEN Append(conflicts, cur_conflict.value) ELSE conflicts
    /\ cur_conflict' = None
    /\ UNCHANGED <<catalog, args, unread, db, handler_mode, staged_extensions, stage_result, stage_call, kind, tasks,
                   outcome, faults, loaded_extensions, should_crash, idx>>
    /\ UNCHANGED history_vars

\* After the loop: match should_crash { true => stop(5), false => Ok(conflicts) }
FinishPass ==
    /\ pc = "classify"
    /\ LoopDone(idx, staged_extensions)
    /\ pc' = "done"
    /\ outcome' = IF should_crash THEN stop(5) ELSE ReturnOk(conflicts)
    /\ UNCHANGED <<catalog, args, unread, db, handler_mode, staged_extensions, stage_result, stage_call, kind, tasks,
                   faults>>
    /\ UNCHANGED pass_vars
    /\ UNCHANGED history_vars

(***************************************************************************)
(* Database::unload_extension called on the store directly, between passes. *)
(***************************************************************************)
DbUnloadExtension(extension_id) ==
    /\ pc \in {"idle", "done"}
    /\ db' = UnloadExtension(db, extension_id)
    /\ db_at_start' = db
    /\ db_at_classify' = db
    /\ db_at_load' = db
    /\ outcome' = [kind |-> "unloaded", id |-> extension_id, result |-> "ok"]
    /\ pc' = "idle"
    /\ handler_mode' = "Manual"
    /\ staged_extensions' = <<>>
    /\ stage_result' = None
    /\ stage_call' = None
    /\ loaded_extensions' = <<>>
    /\ conflicts' = <<>>
    /\ should_crash' = FALSE
    /\ idx' = 0
    /\ cur_conflict' = None
    /\ kind' = "none"
    /\ tasks' = <<>>
    /\ faults' = 0
    /\ decisions' = <<>>
    /\ writers' = {}
    /\ args' = NoFlags
    /\ UNCHANGED <<catalog, unread>>

\* The steps of the program when the store answers every request.
Next ==
    \/ \E auto_reload \in BOOLEAN, auto_handle \in BOOLEAN :
           BaseWithContext(auto_reload, auto_handle)
    \/ \E auto_reload \in BOOLEAN, auto_handle \in BOOLEAN :
           ContextNewPanics(auto_reload, auto_handle)
    \/ \E toml \in catalog : StageExtension(InventoryExtensionFromToml(toml))
    \/ LoadExtensionsBegin
    \/ ClassifyNext
    \/ ReloadUnload
    \/ LoadCreateMetadata
    \/ \E i \in DOMAIN tasks : TaskGet(i)
    \/ \E i \in DOMAIN tasks : TaskRemove(i)
    \/ \E i \in DOMAIN tasks : TaskCreate(i)
    \/ JoinAll
    \/ LoadReturn
    \/ FinishPass
    \/ \E extension_id \in ExtensionIds : DbUnloadExtension(extension_id)

\* The steps in which a store request fails.
Fault ==
    \/ ListExtensionsFails
    \/ ReloadUnloadFails
    \/ LoadCreateMetadataFails
    \/ \E i \in DOMAIN tasks : TaskFails(i)

NextFaults == Next \/ Fault

\* Every run of the program against a store that answers every request.
Spec == Init /\ [][Next]_vars

\* The directories used for the runs in which store requests fail: the first
\* content plan, the second file of e1 carrying the other version.
FaultCatalogs ==
    { c \in Catalogs :
        /\ \E toml \in c : toml.extension_version = VersionToString(<<1, 0, 1>>)
        /\ \E toml \in c : toml.devices # <<>> /\ toml.extension_id = "e1"
        /\ \E toml \in c : toml.device_manufacturers = <<ManufacturerToml("m2", "n1")>> }

InitFaults == Init /\ catalog \in FaultCatalogs

\* Every run of the program when up to MaxFaults store requests of a pass fail.
SpecFaults == InitFaults /\ [][NextFaults]_vars

(***************************************************************************)
(* The server's own start: main sets up the tables and adds the builtin    *)
(* extension before the manager runs.                                      *)
(***************************************************************************)
\* The records one kind of an extension leaves in a table that holds none of
\* their keys (every upsert finds no record and creates its own).
CreatedRecords(extension, k) ==
    LET entities == EntitiesOf(extension, k)
    IN  [key \in {entities[i].id : i \in DOMAIN entities} |->
            PushRecord(k, entities[CHOOSE i \in DOMAIN entities : entities[i].id = key])]

\* Database::add_builtins on the empty store: the builtin extension is loaded.
add_builtins ==
    [extensions |-> Insert(EmptyTable, MetadataPushRecord(builtin.metadata)),
     device_manufacturers |-> CreatedRecords(builtin, "manufacturers"),
     device_categories |-> CreatedRecords(builtin, "categories"),
     devices |-> CreatedRecords(builtin, "devices")]

\* The directories used for the runs of the server: the first content plan.
MainCatalogs ==
    { c \in Catalogs :
        /\ \E toml \in c : toml.devices # <<>> /\ toml.extension_id = "e1"
        /\ \E toml \in c : toml.device_manufacturers = <<ManufacturerToml("m2", "n1")>> }

\* db.setup_tables().await?; db.add_builtins().await?;
InitMain ==
    /\ catalog \in MainCatalogs
    /\ args = NoFlags
    /\ unread = {}
    /\ db = add_builtins
    /\ pc = "idle"
    /\ handler_mode = "Manual"
    /\ staged_extensions = <<>>
    /\ stage_result = None
    /\ stage_call = None
    /\ loaded_extensions = <<>>
    /\ conflicts = <<>>
    /\ should_crash = FALSE
    /\ idx = 0
    /\ cur_conflict = None
    /\ kind = "none"
    /\ tasks = <<>>
    /\ outcome = Running
    /\ faults = 0
    /\ db_at_start = db
    /\ db_at_classify = db
    /\ db_at_load = db
    /\ decisions = <<>>
    /\ writers = {}

NextMain == Next \/ DbUnloadExtension(builtin.metadata.id)

\* Every run of the server and of unloads against its store.
SpecMain == InitMain /\ [][NextMain]_vars

(***************************************************************************)
(* ExtensionManager::new: the manager is built from the files of the       *)
(* extensions directory, visited in the order read_dir yields them.        *)
(***************************************************************************)
\* The fields InventoryExtensionToml requires of a file.
RequiredFields ==
    {"extension_id", "extension_display_name", "extension_version",
     "device_manufacturers", "device_categories", "devices"}

\* toml::from_str::<InventoryExtensionToml>: None when a required field is missing.
TomlFromStr(file) == IF RequiredFields \subseteq DOMAIN file THEN Some(file) ELSE None

\* ExtensionManager::parse_extension: Err when the file does not deserialize,
\* a panic when its version is no semver (the unwrap in From), else the descriptor.
ParseExtension(file) ==
    IF ~TomlFromStr(file).some
    THEN [kind |-> "err"]
    ELSE IF ~VersionParse(file.extension_version).some
         THEN [kind |-> "panic"]
         ELSE [kind |-> "ok", extension |-> InventoryExtensionFromToml(file)]

\* A version string that is no semver: "1.0".
MalformedVersion == <<"1", ".", "0">>

\* Files whose descriptor cannot be constructed: a malformed version string,
\* a missing extension_version field.
BadFiles ==
    { ExtensionToml("e2", "n1", MalformedVersion, Contents(<<>>, <<>>, <<>>)),
      [extension_id |-> "e2",
       extension_display_name |-> "n1",
       device_manufacturers |-> <<>>,
       device_categories |-> <<>>,
       devices |-> <<>>] }

\* The directories used for the runs of ExtensionManager::new: two files of
\* e1 and a third file that is well-formed or not.
DirectoryCatalogs ==
    { { ExtensionToml("e1", "n1", VersionToString(<<1, 0, 0>>), SingleContents),
        ExtensionToml("e1", "n1", VersionToString(<<1, 0, 1>>),
                      Contents(<<ManufacturerToml("m2", "n1")>>, <<>>, <<>>)),
        third } :
      third \in BadFiles \cup
                { ExtensionToml("e2", "n1", VersionToString(<<1, 0, 0>>),
                                Contents(<<ManufacturerToml("m1", "n2")>>, <<>>, <<>>)) } }

\* Before the first run over the directory: the store as setup_tables leaves it.
InitDirectory ==
    /\ catalog \in DirectoryCatalogs
    /\ args = NoFlags
    /\ unread = {}
    /\ db = EmptyDatabase
    /\ pc = "idle"
    /\ handler_mode = "Manual"
    /\ staged_extensions = <<>>
    /\ stage_result = None
    /\ stage_call = None
    /\ loaded_extensions = <<>>
    /\ conflicts = <<>>
    /\ should_crash = FALSE
    /\ idx = 0
    /\ cur_conflict = None
    /\ kind = "none"
    /\ tasks = <<>>
    /\ outcome = Running
    /\ faults = 0
    /\ db_at_start = EmptyDatabase
    /\ db_at_classify = EmptyDatabase
    /\ db_at_load = EmptyDatabase
    /\ decisions = <<>>
    /\ writers = {}

\* let mut manager = Self::base_with_context(ctx); read_dir("./extensions")
ManagerNewBegin(auto_reload, auto_handle) ==
    /\ pc \in {"idle", "done"}
    /\ ContextNew(auto_reload, auto_handle) # Some("panic")
    /\ pc' = "new"
    /\ args' = Flags(auto_reload, auto_handle)
    /\ unread' = catalog
    /\ handler_mode' = HandlerModeFrom(ContextNew(auto_reload, auto_handle))
    /\ staged_extensions' = <<>>
    /\ stage_result' = None
    /\ stage_call' = None
    /\ loaded_extensions' = <<>>
    /\ conflicts' = <<>>
    /\ should_crash' = FALSE
    /\ idx' = 0
    /\ cur_conflict' = None
    /\ kind' = "none"
    /\ tasks' = <<>>
    /\ outcome' = Running
    /\ faults' = 0
    /\ db_at_start' = db
    /\ db_at_classify' = db
    /\ db_at_load' = db
    /\ decisions' = <<>>
    /\ writers' = {}
    /\ UNCHANGED <<catalog, db>>

\* One turn of the loop over the directory:
\* manager.stage_extension(Self::parse_extension(&extension_file.path())?)?;
\* An Err leaves new through the `?` and a panic ends the process: either way
\* the manager under construction is dropped with everything it had staged.
ManagerNewFile(file) ==
    /\ pc = "new"
    /\ file \in unread
    /\ LET parsed == ParseExtension(file)
       IN  CASE parsed.kind = "ok" ->
                  /\ IF ~already_contains(staged_extensions, parsed.extension)
                     THEN /\ staged_extensions' = Append(staged_extensions, parsed.extension)
                          /\ stage_result' = None
                     ELSE /\ staged_extensions' = staged_extensions
                          /\ stage_result' =
                                 Some(StageConflictNew(
                                     ConflictMetadata(staged_extensions, parsed.extension)))
                  /\ stage_call' = Some(parsed.extension.metadata)
                  /\ unread' = unread \ {file}
                  /\ UNCHANGED <<pc, outcome>>
             [] OTHER ->
                  /\ pc' = "done"
                  /\ outcome' = IF parsed.kind = "err"
                                THEN ReturnErr("parse_extension")
                                ELSE [kind |-> "panic"]
                  /\ staged_extensions' = <<>>
                  /\ stage_result' = None
                  /\ stage_call' = None
                  /\ unread' = {}
    /\ UNCHANGED <<catalog, args, db, handler_mode, kind, tasks, faults>>
    /\ UNCHANGED pass_vars
    /\ UNCHANGED history_vars

\* Ok(manager): every directory entry was visited; main goes on to load_extensions.
ManagerNewReturn ==
    /\ pc = "new"
    /\ unread = {}
    /\ pc' = "staging"
    /\ UNCHANGED <<catalog, args, unread, db, handler_mode, staged_extensions, stage_result,
                   stage_call, kind, tasks, outcome, faults>>
    /\ UNCHANGED pass_vars
    /\ UNCHANGED history_vars

\* The steps of a server run that builds its manager from the directory.
NextDirectory ==
    \/ \E auto_reload \in BOOLEAN, auto_handle \in BOOLEAN :
           ManagerNewBegin(auto_reload, auto_handle)
    \/ \E file \in catalog : ManagerNewFile(file)
    \/ ManagerNewReturn
    \/ LoadExtensionsBegin
    \/ ClassifyNext
    \/ ReloadUnload
    \/ LoadCreateMetadata
    \/ \E i \in DOMAIN tasks : TaskGet(i)
    \/ \E i \in DOMAIN tasks : TaskRemove(i)
    \/ \E i \in DOMAIN tasks : TaskCreate(i)
    \/ JoinAll
    \/ LoadReturn
    \/ FinishPass

\* Every run of the server over a directory of well-formed and other files.
SpecDirectory == InitDirectory /\ [][NextDirectory]_vars

(***************************************************************************)
(* Vocabulary of the properties.                                           *)
(***************************************************************************)
Kinds == {"categories", "manufacturers", "devices"}

Link(extension_id) == Thing(EXTENSION_TABLE_NAME, extension_id)

StagedId(i) == staged_extensions[i].metadata.id

\* The staged extension i had a metadata record in the store when the pass began.
LoadedAtStart(i) == StagedId(i) \in DOMAIN db_at_start.extensions

\* The version the store held for the staged extension i when the pass began.
VersionAtStart(i) == VersionParse(db_at_start.extensions[StagedId(i)].version).value

SameVersionAtStart(i) ==
    LoadedAtStart(i) /\ VersionAtStart(i) = staged_extensions[i].metadata.version

DifferentVersionAtStart(i) ==
    LoadedAtStart(i) /\ VersionAtStart(i) # staged_extensions[i].metadata.version

\* semver precedence of <<major, minor, patch>>
VersionLess(a, b) ==
    \/ a[1] < b[1]
    \/ a[1] = b[1] /\ a[2] < b[2]
    \/ a[1] = b[1] /\ a[2] = b[2] /\ a[3] < b[3]

\* The loop is through with the staged extension i.
Settled(i) == i \in DOMAIN decisions /\ (i < idx \/ pc \in {"classify", "done"})

ContributedIds(extension, k) ==
    {EntitiesOf(extension, k)[j].id : j \in DOMAIN EntitiesOf(extension, k)}

\* The keys of the records of kind k that name the extension among their owners.
OwnedKeys(d, k, extension_id) ==
    {key \in DOMAIN TableOf(d, k) : Link(extension_id) \in TableOf(d, k)[key].extensions}

\* The store holds no entity the extension contributes.
HoldsNoEntityOf(d, extension) ==
    \A k \in Kinds : DOMAIN TableOf(d, k) \cap ContributedIds(extension, k) = {}

\* The metadata record of the extension, read back as list_extensions reads it.
HoldsMetadataOf(d, extension) ==
    /\ extension.metadata.id \in DOMAIN d.extensions
    /\ MetadataFromRecord(d.extensions[extension.metadata.id]) = Some(extension.metadata)

\* A pass is at the point where load_extension has just returned Ok.
JustLoaded == pc = "loaded"

(***************************************************************************)
(* C1: in every handler mode a staged extension whose id no loaded         *)
(* extension has is loaded and yields no verdict; when the store held none *)
(* of its entity ids, the load adds exactly its metadata record and its    *)
(* entities, each owned by that extension alone, and changes nothing else. *)
(***************************************************************************)
C1_FreshLoad ==
    /\ \A i \in DOMAIN decisions :
           ~LoadedAtStart(i) =>
               /\ decisions[i].decision = "load"
               /\ ~decisions[i].conflict.some
               /\ \A j \in DOMAIN conflicts : conflicts[j].id # StagedId(i)
    /\ (JustLoaded /\ ~cur_conflict.some /\ HoldsNoEntityOf(db_at_load, Current)) =>
           /\ DOMAIN db.extensions = DOMAIN db_at_load.extensions \cup {Current.metadata.id}
           /\ Current.metadata.id \notin DOMAIN db_at_load.extensions
           /\ HoldsMetadataOf(db, Current)
           /\ \A key \in DOMAIN db_at_load.extensions :
                  db.extensions[key] = db_at_load.extensions[key]
           /\ \A k \in Kinds :
                  /\ DOMAIN TableOf(db, k) =
                         DOMAIN TableOf(db_at_load, k) \cup ContributedIds(Current, k)
                  /\ \A key \in DOMAIN TableOf(db_at_load, k) :
                         TableOf(db, k)[key] = TableOf(db_at_load, k)[key]
                  /\ \A key \in ContributedIds(Current, k) :
                         /\ TableOf(db, k)[key].extensions = {Link(Current.metadata.id)}
                         /\ \E j \in DOMAIN EntitiesOf(Current, k) :
                                FromRecord(k, TableOf(db, k)[key]) = EntitiesOf(Current, k)[j]

C1_Witness ==
    /\ JustLoaded
    /\ ~cur_conflict.some
    /\ handler_mode = "ForceReload"
    /\ HoldsNoEntityOf(db_at_load, Current)
    /\ DOMAIN db_at_load.extensions # {}
    /\ DOMAIN db_at_load.device_manufacturers # {}
    /\ Current.device_manufacturers # <<>>
    /\ DOMAIN db.device_manufacturers # DOMAIN db_at_load.device_manufacturers

C5_AutoSkipsDowngrade ==
    handler_mode = "Auto" =>
        \A i \in DOMAIN decisions :
            (/\ LoadedAtStart(i)
             /\ VersionLess(staged_extensions[i].metadata.version, VersionAtStart(i))) =>
                /\ decisions[i].decision = "skip"
                /\ decisions[i].conflict = Some([id |-> StagedId(i), same_version |-> FALSE])
                /\ StagedId(i) \notin writers
                /\ db.extensions[StagedId(i)] = db_at_start.extensions[StagedId(i)]

(***************************************************************************)
(* C6: under ForceReload every staged extension with the id of a loaded    *)
(* one is reloaded, same version or not; the verdict is reported; after    *)
(* the reload the metadata record is the staged one and the records that   *)
(* name the extension as an owner are exactly those the staged extension   *)
(* contributes, with its fields.                                           *)
(***************************************************************************)
C6_ForceReloadAlways ==
    handler_mode = "ForceReload" =>
        /\ \A i \in DOMAIN decisions :
               LoadedAtStart(i) =>
                   /\ decisions[i].decision = "reload"
                   /\ decisions[i].conflict =
                          Some([id |-> StagedId(i), same_version |-> SameVersionAtStart(i)])
                   /\ Settled(i) =>
                          /\ HoldsMetadataOf(db, staged_extensions[i])
                          /\ Cardinality({j \in DOMAIN conflicts : conflicts[j].id = StagedId(i)}) = 1
        /\ (JustLoaded /\ cur_conflict.some) =>
               /\ HoldsMetadataOf(db, Current)
               /\ \A k \in Kinds :
                      /\ OwnedKeys(db, k, Current.metadata.id) = ContributedIds(Current, k)
                      /\ \A key \in ContributedIds(Current, k) :
                             \E j \in DOMAIN EntitiesOf(Current, k) :
                                 [FromRecord(k, TableOf(db, k)[key]) EXCEPT !.extensions = {}] =
                                     [EntitiesOf(Current, k)[j] EXCEPT !.extensions = {}]

C6_Witness ==
    /\ JustLoaded
    /\ handler_mode = "ForceReload"
    /\ cur_conflict = Some([id |-> "e1", same_version |-> TRUE])
    /\ OwnedKeys(db_at_classify, "manufacturers", "e1") # ContributedIds(Current, "manufacturers")
    /\ OwnedKeys(db_at_classify, "devices", "e1") # {}

C8_CrashOnlyAfterFullPass ==
    /\ outcome.kind = "exit" =>
           /\ outcome = stop(5)
           /\ pc = "done"
           /\ should_crash
           /\ idx = Len(staged_extensions)
           /\ Len(decisions) = Len(staged_extensions)
           /\ \A i \in DOMAIN decisions :
                  /\ ~LoadedAtStart(i) =>
                         /\ decisions[i].decision = "load"
                         /\ HoldsMetadataOf(db, staged_extensions[i])
                         /\ \A k \in Kinds :
                                ContributedIds(staged_extensions[i], k) \subseteq
                                    OwnedKeys(db, k, StagedId(i))
                  /\ DifferentVersionAtStart(i) => StagedId(i) \notin writers
    /\ (should_crash /\ pc = "done") => outcome = stop(5)
    /\ (should_crash /\ pc # "done") => outcome = Running

C8_Witness ==
    /\ outcome = stop(5)
    /\ Len(staged_extensions) = 2
    /\ DifferentVersionAtStart(1)
    /\ ~LoadedAtStart(2)
    /\ staged_extensions[2].device_manufacturers # <<>>
    /\ HoldsMetadataOf(db, staged_extensions[2])

(***************************************************************************)
(* C9: no execution of load_extensions ends in a process exit; the         *)
(* unresolved manual conflict reaches the caller as a returned failure.    *)
(***************************************************************************)
C9_NoProcessExit == outcome.kind # "exit"

(***************************************************************************)
(* C10: an upsert that is the only one for its record key in its kind      *)
(* ends Ok; the record stored is the new entity as it is when no record    *)
(* had the key, and otherwise the new entity's fields with the union of    *)
(* the owners of the record that was there and the new entity's owners.    *)
(***************************************************************************)
C10_UpsertMerges ==
    pc = "upsert" =>
        \A i \in DOMAIN tasks :
            (/\ tasks[i].pc = "done"
             /\ \A j \in DOMAIN tasks : tasks[j].entity.id = tasks[i].entity.id => j = i) =>
                LET entity == EntitiesOf(Current, kind)[i]
                    before == TableOf(db_at_load, kind)
                    now == TableOf(db, kind)
                IN  /\ tasks[i].result = "ok"
                    /\ entity.id \in DOMAIN now
                    /\ IF entity.id \in DOMAIN before
                       THEN FromRecord(kind, now[entity.id]) =
                                [entity EXCEPT !.extensions =
                                     @ \cup FromRecord(kind, before[entity.id]).extensions]
                       ELSE FromRecord(kind, now[entity.id]) = entity

C10_Witness ==
    /\ pc = "upsert"
    /\ kind = "manufacturers"
    /\ \E i \in DOMAIN tasks :
           /\ tasks[i].pc = "done"
           /\ tasks[i].entity.id \in DOMAIN db_at_load.device_manufacturers
           /\ db_at_load.device_manufacturers[tasks[i].entity.id].display_name #
                  tasks[i].entity.display_name
           /\ db.device_manufacturers[tasks[i].entity.id].display_name =
                  tasks[i].entity.display_name
           /\ Cardinality(db.device_manufacturers[tasks[i].entity.id].extensions) = 2

\* The extension lists the key exactly once among its entities of kind k.
ListedOnce(extension, k, key) ==
    Cardinality({j \in DOMAIN EntitiesOf(extension, k) :
                     EntitiesOf(extension, k)[j].id = key}) = 1

\* The pass has loaded (or reloaded) the staged extension i and is through with it.
LoadedInPass(i) == Settled(i) /\ decisions[i].decision \in {"load", "reload"}

(***************************************************************************)
(* C11: a manufacturer two extensions with distinct ids contribute is one  *)
(* record owned by both, whichever is loaded first: a load that finds the  *)
(* record owned by others adds the loading extension to its owners, and a  *)
(* pass that loads both extensions leaves the record owned by exactly the  *)
(* two (each extension listing the manufacturer once).                     *)
(***************************************************************************)
C11_SharedManufacturerUnion ==
    /\ JustLoaded =>
           \A key \in ContributedIds(Current, "manufacturers") :
               (/\ ListedOnce(Current, "manufacturers", key)
                /\ key \in DOMAIN db_at_load.device_manufacturers) =>
                   /\ key \in DOMAIN db.device_manufacturers
                   /\ db.device_manufacturers[key].extensions =
                          db_at_load.device_manufacturers[key].extensions
                              \cup {Link(Current.metadata.id)}
    /\ (Len(decisions) = 2 /\ LoadedInPass(1) /\ LoadedInPass(2)) =>
           \A key \in ContributedIds(staged_extensions[1], "manufacturers")
                          \cap ContributedIds(staged_extensions[2], "manufacturers") :
               (/\ ListedOnce(staged_extensions[1], "manufacturers", key)
                /\ ListedOnce(staged_extensions[2], "manufacturers", key)) =>
                   /\ key \in DOMAIN db.device_manufacturers
                   /\ db.device_manufacturers[key].extensions =
                          {Link(StagedId(1)), Link(StagedId(2))}
                   /\ StagedId(1) # StagedId(2)

C11_Witness ==
    /\ pc = "done"
    /\ Len(decisions) = 2
    /\ StagedId(1) = "e2"
    /\ StagedId(2) = "e1"
    /\ decisions[1].decision = "load"
    /\ decisions[2].decision = "load"
    /\ "m1" \in ContributedIds(staged_extensions[1], "manufacturers")
    /\ "m1" \in ContributedIds(staged_extensions[2], "manufacturers")
    /\ db_at_start.device_manufacturers = EmptyTable
    /\ db.device_manufacturers["m1"].extensions = {Link("e1"), Link("e2")}

\* What unload_extension(extension_id) makes of the store `before`.
UnloadedFrom(before, after, extension_id) ==
    /\ extension_id \notin DOMAIN after.extensions
    /\ \A k \in Kinds : \A key \in DOMAIN TableOf(before, k) :
           LET owners == TableOf(before, k)[key].extensions
           IN  /\ owners = {Link(extension_id)} => key \notin DOMAIN TableOf(after, k)
               /\ (Link(extension_id) \in owners /\ owners # {Link(extension_id)}) =>
                      /\ key \in DOMAIN TableOf(after, k)
                      /\ TableOf(after, k)[key] =
                             [TableOf(before, k)[key] EXCEPT
                                  !.extensions = owners \ {Link(extension_id)}]

\* An unload called on the store directly has just returned.
JustUnloaded == pc = "idle" /\ outcome.kind = "unloaded"

\* The unload of a reload has just returned and the load has not begun.
JustUnloadedForReload == pc = "load" /\ cur_conflict.some

(***************************************************************************)
(* C12: unload_extension(E), called directly or as the first half of a     *)
(* reload, deletes every entity owned by E alone, keeps every entity E     *)
(* co-owns with E taken out of its owners and the other owners and fields  *)
(* kept, and deletes the metadata record of E.                             *)
(***************************************************************************)
C12_UnloadSoleAndShared ==
    /\ JustUnloaded => UnloadedFrom(db_at_start, db, outcome.id)
    /\ JustUnloadedForReload => UnloadedFrom(db_at_classify, db, Current.metadata.id)

C12_Witness ==
    /\ JustUnloaded
    /\ outcome.id = "e1"
    /\ "e1" \in DOMAIN db_at_start.extensions
    /\ "m1" \in DOMAIN db_at_start.device_manufacturers
    /\ db_at_start.device_manufacturers["m1"].extensions = {Link("e1"), Link("e2")}
    /\ "d1" \in DOMAIN db_at_start.devices
    /\ db_at_start.devices["d1"].extensions = {Link("e1")}
    /\ db.device_manufacturers["m1"].extensions = {Link("e2")}
    /\ "d1" \notin DOMAIN db.devices
    /\ "e1" \notin DOMAIN db.extensions

(***************************************************************************)
(* C13: every manufacturer, category and device record of the store has at *)
(* least one owner, in every state a sequence of loads, unloads and        *)
(* reloads reaches (between the operations and within them).               *)
(***************************************************************************)
C13_OwnersNeverEmpty ==
    \A k \in Kinds : \A key \in DOMAIN TableOf(db, k) :
        TableOf(db, k)[key].extensions # {}

C13_Witness ==
    /\ JustUnloadedForReload
    /\ Current.metadata.id = "e2"
    /\ "m2" \in DOMAIN db_at_classify.device_manufacturers
    /\ db_at_classify.device_manufacturers["m2"].extensions = {Link("e2")}
    /\ "d1" \in DOMAIN db_at_classify.devices
    /\ db_at_classify.devices["d1"].extensions = {Link("e1"), Link("e2")}
    /\ "m2" \notin DOMAIN db.device_manufacturers
    /\ db.devices["d1"].extensions = {Link("e1")}

(***************************************************************************)
(* C14: an unload of the builtin extension returns an error and leaves the *)
(* store as it was: the builtin metadata record and every record builtin   *)
(* owns stay, with their owners.                                           *)
(***************************************************************************)
C14_BuiltinUnloadRejected ==
    (JustUnloaded /\ outcome.id = builtin.metadata.id) =>
        /\ outcome.result = "err"
        /\ db = db_at_start
        /\ HoldsMetadataOf(db, builtin)

\* A reload has just returned Ok: the store before it is db_at_classify.
JustReloaded == JustLoaded /\ cur_conflict.some

(***************************************************************************)
(* C15: after reload_extension of E, a record the old E co-owned with      *)
(* another extension F is still there; when the new E does not contribute  *)
(* it, its owners are the old ones without E (F among them) and its fields *)
(* are kept; when the new E contributes it (once), E and F are both among  *)
(* its owners.  A record the old E owned alone and the new E does not      *)
(* contribute is gone.                                                     *)
(***************************************************************************)
C15_ReloadKeepsCoOwned ==
    JustReloaded =>
        \A k \in Kinds : \A key \in DOMAIN TableOf(db_at_classify, k) :
            LET E == Link(Current.metadata.id)
                owners == TableOf(db_at_classify, k)[key].extensions
            IN  /\ (E \in owners /\ owners # {E} /\ key \notin ContributedIds(Current, k)) =>
                       /\ key \in DOMAIN TableOf(db, k)
                       /\ TableOf(db, k)[key] =
                              [TableOf(db_at_classify, k)[key] EXCEPT !.extensions = owners \ {E}]
                /\ (E \in owners /\ owners # {E} /\ ListedOnce(Current, k, key)) =>
                       /\ key \in DOMAIN TableOf(db, k)
                       /\ TableOf(db, k)[key].extensions = owners
                /\ (owners = {E} /\ key \notin ContributedIds(Current, k)) =>
                       key \notin DOMAIN TableOf(db, k)

C15_Witness ==
    /\ JustReloaded
    /\ Current.metadata.id = "e1"
    /\ "d1" \in DOMAIN db_at_classify.devices
    /\ db_at_classify.devices["d1"].extensions = {Link("e1"), Link("e2")}
    /\ "d1" \in ContributedIds(Current, "devices")
    /\ db.devices["d1"].extensions = {Link("e1"), Link("e2")}
    /\ db.devices["d1"].display_name # db_at_classify.devices["d1"].display_name

StagedIds(staged) == {staged[i].metadata.id : i \in DOMAIN staged}

NoTwoStagedShareId ==
    \A i \in DOMAIN staged_extensions : \A j \in DOMAIN staged_extensions :
        StagedId(i) = StagedId(j) => i = j

\* A step within the staging of one manager is a stage_extension call.
StageCall == pc = "staging" /\ pc' = "staging"

\* What a stage_extension call does, said of the step: the extension of some
\* file is rejected when its id is staged, and appended otherwise.
StageCallEffect ==
    \E toml \in catalog :
        LET extension == InventoryExtensionFromToml(toml)
        IN  IF extension.metadata.id \in StagedIds(staged_extensions)
            THEN /\ staged_extensions' = staged_extensions
                 /\ stage_result'.some
                 /\ stage_result'.value.metadata.id = extension.metadata.id
            ELSE /\ staged_extensions' = Append(staged_extensions, extension)
                 /\ stage_result' = None

(***************************************************************************)
(* C16: no two staged extensions ever share an id; every stage_extension   *)
(* call with a staged id returns a StageConflict and leaves the staged     *)
(* list as it is, and every call with a new id appends the extension and   *)
(* returns no conflict, whatever the calls before it returned.             *)
(***************************************************************************)
C16_StagedIdsUnique ==
    /\ []NoTwoStagedShareId
    /\ [][StageCall => StageCallEffect]_vars

C16_Witness ==
    /\ pc = "staging"
    /\ Len(staged_extensions) = 2
    /\ stage_result.some
    /\ stage_result.value.metadata.id = StagedId(1)
    /\ stage_result.value.metadata # staged_extensions[1].metadata

(***************************************************************************)
(* C17 as stated: the StageConflict of a rejected stage_extension call     *)
(* carries the metadata of the extension that was already staged.          *)
(***************************************************************************)
C17_ConflictCarriesStaged ==
    stage_result.some =>
        \E i \in DOMAIN staged_extensions :
            stage_result.value.metadata = staged_extensions[i].metadata

(***************************************************************************)
(* C17 amended: the StageConflict of a rejected stage_extension call       *)
(* carries the metadata (id, display_name, version) of the extension the   *)
(* call was given; only the id is sure to be that of a staged extension.   *)
(***************************************************************************)
C17_ConflictCarriesIncoming ==
    stage_result.some =>
        /\ stage_call.some
        /\ stage_result.value.metadata = stage_call.value
        /\ stage_call.value.id \in StagedIds(staged_extensions)

C17_Witness ==
    /\ stage_result.some
    /\ stage_call.some
    /\ Len(staged_extensions) = 1
    /\ stage_call.value.id = StagedId(1)
    /\ stage_call.value.version # staged_extensions[1].metadata.version
    /\ stage_call.value.display_name # staged_extensions[1].metadata.display_name
    /\ stage_result.value.metadata = stage_call.value

\* A step in which the loop takes the next staged extension and calls
\* LoadConflict::new on it and the loaded list.
ClassifyCall == pc = "classify" /\ idx' = idx + 1

\* What the call returned (the pass logs it) against its two arguments.
ClassifyCallEffect ==
    LET staged_extension == staged_extensions[idx']
        id == staged_extension.metadata.id
        matching == {i \in DOMAIN loaded_extensions : loaded_extensions[i].id = id}
        verdict == decisions'[idx'].conflict
    IN  /\ verdict.some <=> matching # {}
        /\ verdict.some =>
               /\ verdict.value.id = id
               /\ verdict.value.same_version <=>
                      \E i \in matching :
                          loaded_extensions[i].version = staged_extension.metadata.version
        /\ ~verdict.some => loaded_extensions' = loaded_extensions

(***************************************************************************)
(* C18: LoadConflict::new returns a verdict exactly when an entry of the   *)
(* loaded list has the staged extension's id; the verdict names that id    *)
(* and its same_version says whether the two versions are equal; without a *)
(* match it returns none and leaves the loaded list as it is.              *)
(***************************************************************************)
C18_VerdictIffIdLoaded == [][ClassifyCall => ClassifyCallEffect]_vars

C18_Witness ==
    /\ idx = 1
    /\ Len(decisions) = 1
    /\ StagedId(1) = "e2"
    /\ decisions[1].conflict = Some([id |-> "e2", same_version |-> TRUE])
    /\ Len(loaded_extensions) = 1
    /\ loaded_extensions[1].id = "e1"
    /\ loaded_extensions[1].version # staged_extensions[1].metadata.version

\* The upserts of one kind are through: every entity of the kind the
\* extension contributes is stored and names the extension as an owner.
KindUpserted(d, extension, k) ==
    ContributedIds(extension, k) \subseteq OwnedKeys(d, k, extension.metadata.id)

\* A step that builds the futures of an entity kind.
KindStarts == pc' = "upsert" /\ kind' # kind

\* The kinds whose upserts load_extension has awaited before kind k starts.
KindsBefore(k) ==
    CASE k = "categories" -> {}
      [] k = "manufacturers" -> {"categories"}
      [] k = "devices" -> {"categories", "manufacturers"}

(***************************************************************************)
(* C19: within the load of one extension the upserts of a kind start only  *)
(* when every upsert of the kind before it has ended; while the device     *)
(* upserts run, no category or manufacturer upsert is pending and every    *)
(* category and manufacturer of the extension is stored.                   *)
(***************************************************************************)
C19_FanInBeforeNextKind ==
    /\ [](pc = "upsert" =>
              /\ \A i \in DOMAIN tasks : tasks[i].entity.id \in ContributedIds(Current, kind)
              /\ \A k \in KindsBefore(kind) : KindUpserted(db, Current, k))
    /\ [][KindStarts =>
              /\ \A i \in DOMAIN tasks : tasks[i].pc = "done"
              /\ kind \in KindsBefore(kind') \/ (kind = "none" /\ kind' = "categories")
              /\ tasks' = NewTasks(staged_extensions[idx], kind')]_vars

C19_Witness ==
    /\ pc = "upsert"
    /\ kind = "devices"
    /\ \E i \in DOMAIN tasks : tasks[i].pc = "create"
    /\ Len(Current.device_manufacturers) = 2
    /\ Len(Current.device_categories) = 1
    /\ KindUpserted(db, Current, "manufacturers")
    /\ KindUpserted(db, Current, "categories")
    /\ Cardinality(db.device_manufacturers["m2"].extensions) = 2

\* An upsert future of the load in progress has ended with an error.
UpsertFailed == pc = "upsert" /\ \E i \in DOMAIN tasks : tasks[i].result = "err"

(***************************************************************************)
(* C20: once an upsert of a load has failed, the load neither goes on to   *)
(* the next entity kind nor returns Ok: the only way out of the kind is    *)
(* load_extensions returning the error.                                    *)
(***************************************************************************)
C20_UpsertFailurePropagates ==
    [][UpsertFailed =>
           \/ pc' = "upsert" /\ kind' = kind
           \/ pc' = "done" /\ outcome'.kind = "err"]_vars

\* The upsert future i has done its read and not yet its final insert.
MidUpsert(i) == tasks[i].pc \in {"remove", "create"}

(***************************************************************************)
(* C21: upserts of one (kind, id) are serialized: no two futures of the    *)
(* same entity id are between their read and their final insert at once,   *)
(* and no future is about to insert an entity it read as missing while the *)
(* record it would have merged was only deleted by another future.         *)
(***************************************************************************)
C21_UpsertsSerialized ==
    pc = "upsert" =>
        \A i \in DOMAIN tasks : \A j \in DOMAIN tasks :
            (i # j /\ tasks[i].entity.id = tasks[j].entity.id) =>
                ~(MidUpsert(i) /\ MidUpsert(j))

(***************************************************************************)
(* C28: when load_extension has returned, every entity id the extension    *)
(* contributes is stored in one record whose owners include the extension  *)
(* and every owner the record had when the load began, whatever the        *)
(* interleaving of the upserts and however often the id is listed.         *)
(***************************************************************************)
C28_NoOwnerLost ==
    JustLoaded =>
        \A k \in Kinds : \A key \in ContributedIds(Current, k) :
            /\ key \in DOMAIN TableOf(db, k)
            /\ Link(Current.metadata.id) \in TableOf(db, k)[key].extensions
            /\ key \in DOMAIN TableOf(db_at_load, k) =>
                   TableOf(db_at_load, k)[key].extensions \subseteq TableOf(db, k)[key].extensions

\* The metadata records of the store that carry the record id of the extension.
MetadataRecordsOf(d, extension_id) ==
    {key \in DOMAIN d.extensions : d.extensions[key].id = Link(extension_id)}

(***************************************************************************)
(* C22: at every point of every sequence of loads, unloads and reloads the *)
(* store holds at most one metadata record per extension id, filed under   *)
(* that id; when a reload has returned Ok, the record of the id reads back *)
(* as the staged extension's metadata: its version and its display_name.   *)
(***************************************************************************)
C22_OneMetadataRecordPerId ==
    /\ \A extension_id \in DOMAIN db.extensions \cup ExtensionIds :
           /\ Cardinality(MetadataRecordsOf(db, extension_id)) <= 1
           /\ MetadataRecordsOf(db, extension_id) \subseteq {extension_id}
    /\ JustReloaded =>
           /\ MetadataRecordsOf(db, Current.metadata.id) = {Current.metadata.id}
           /\ LET stored == MetadataFromRecord(db.extensions[Current.metadata.id])
              IN  /\ stored.some
                  /\ stored.value.version = Current.metadata.version
                  /\ stored.value.display_name = Current.metadata.display_name

C22_Witness ==
    /\ JustReloaded
    /\ ~cur_conflict.value.same_version
    /\ Current.metadata.id \in DOMAIN db_at_classify.extensions
    /\ db_at_classify.extensions[Current.metadata.id].display_name # Current.metadata.display_name
    /\ db.extensions[Current.metadata.id].display_name = Current.metadata.display_name
    /\ Cardinality(DOMAIN db.extensions) = 2

\* A pass has ended in which the staged extension i was loaded as a new
\* extension into a store that held neither its metadata nor any of its
\* entity ids, and nothing was written for any other extension.
LoadedAloneIntoFreeStore(i) ==
    /\ pc = "done"
    /\ outcome.kind \in {"ok", "exit"}
    /\ i \in DOMAIN decisions
    /\ decisions[i].decision = "load"
    /\ writers = {StagedId(i)}
    /\ StagedId(i) \notin DOMAIN db_at_start.extensions
    /\ HoldsNoEntityOf(db_at_start, staged_extensions[i])

\* The step is Database::unload_extension called for the extension id.
UnloadCall(extension_id) ==
    /\ pc' = "idle"
    /\ outcome'.kind = "unloaded"
    /\ outcome'.id = extension_id

\* What the next pass would list and the verdict it would give the extension.
VerdictAfter(d, extension) == LoadConflictNew(extension, ListExtensions(d).value).conflict

(***************************************************************************)
(* C23: an extension is loaded into a store that holds none of its ids and *)
(* is then unloaded: the store is again what it was before the load, with  *)
(* neither the metadata nor any entity of the extension, so that a next    *)
(* pass that stages the same extension gets no verdict for it (and hence   *)
(* loads it in every handler mode).                                        *)
(***************************************************************************)
C23_LoadThenUnloadRestores ==
    [][\A i \in DOMAIN staged_extensions :
           (LoadedAloneIntoFreeStore(i) /\ UnloadCall(StagedId(i))) =>
               /\ db' = db_at_start
               /\ StagedId(i) \notin DOMAIN db'.extensions
               /\ HoldsNoEntityOf(db', staged_extensions[i])
               /\ VerdictAfter(db', staged_extensions[i]) = None]_vars

C23_Witness ==
    /\ JustUnloaded
    /\ outcome.id = "e2"
    /\ DOMAIN db_at_start.extensions = {"e1", "e2"}
    /\ DOMAIN db.extensions = {"e1"}
    /\ DOMAIN db_at_start.device_manufacturers = {"m1", "m2"}
    /\ db_at_start.device_manufacturers["m1"].extensions = {Link("e2")}
    /\ db_at_start.device_manufacturers["m2"].extensions = {Link("e1")}
    /\ DOMAIN db.device_manufacturers = {"m2"}
    /\ DOMAIN db_at_start.device_categories = {"c1"}
    /\ db.device_categories = EmptyTable

\* Every extension descriptor a file of some directory yields.
Descriptors == {InventoryExtensionFromToml(toml) : toml \in UNION Catalogs}

\* The descriptors that agree with the extension on id and version.
SameIdAndVersion(extension) ==
    {other \in Descriptors :
        /\ other.metadata.id = extension.metadata.id
        /\ other.metadata.version = extension.metadata.version}

\* What one turn of the loop decides for a staged extension, given the handler
\* mode and the loaded list: the branch taken and whether should_crash is set.
Decide(mode, staged_extension, loaded) ==
    LET verdict == LoadConflictNew(staged_extension, loaded).conflict
    IN  IF ~verdict.some
        THEN [decision |-> "load", conflict |-> None, fatal |-> FALSE]
        ELSE [decision |-> Resolution(mode, verdict.value),
              conflict |-> verdict,
              fatal |-> SetsCrash(mode, verdict.value)]

(***************************************************************************)
(* C24: the decision a turn of the loop takes for a staged extension       *)
(* (load, skip, skip with the fatal flag set, reload) and its verdict are  *)
(* those every descriptor with the same id and version would receive in    *)
(* the same handler mode against the same loaded list, whatever its        *)
(* manufacturers, categories, devices and display_name.                    *)
(***************************************************************************)
C24_DecisionIgnoresContents ==
    [][ClassifyCall =>
          \A other \in SameIdAndVersion(staged_extensions[idx']) :
              LET d == Decide(handler_mode, other, loaded_extensions)
              IN  /\ decisions'[idx'].decision = d.decision
                  /\ decisions'[idx'].conflict = d.conflict
                  /\ should_crash' = (should_crash \/ d.fatal)]_vars

C24_Witness ==
    /\ pc = "classify"
    /\ idx = 1
    /\ handler_mode = "Auto"
    /\ StagedId(1) = "e1"
    /\ decisions[1].decision = "skip"
    /\ Current.metadata.display_name # db.extensions["e1"].display_name
    /\ Current.devices = <<>>
    /\ "d1" \in OwnedKeys(db, "devices", "e1")
    /\ Cardinality(SameIdAndVersion(Current)) > 2

\* The staged extension i met a loaded extension of its id with the same
\* version and another display_name when the pass began.
NameChangeOnly(i) ==
    /\ SameVersionAtStart(i)
    /\ db_at_start.extensions[StagedId(i)].display_name # staged_extensions[i].metadata.display_name

HandlerModes == {"Manual", "Auto", "ForceReload"}

\* The handler mode of the run is the one its flags select; with both flags
\* the run has ended in Context::new and no manager with a mode exists.
ModeFollowsFlags ==
    /\ (~args.auto_reload /\ ~args.auto_handle) => handler_mode = "Manual"
    /\ (args.auto_reload /\ ~args.auto_handle) => handler_mode = "ForceReload"
    /\ (~args.auto_reload /\ args.auto_handle) => handler_mode = "Auto"
    /\ (args.auto_reload /\ args.auto_handle) =>
           /\ handler_mode \notin HandlerModes
           /\ pc = "idle"
           /\ outcome.kind = "panic"
           /\ staged_extensions = <<>>

\* The manager is staging or loading.
InPass == pc \notin {"idle", "done"}

(***************************************************************************)
(* C26: the handler mode of a run is Manual without an override flag,      *)
(* ForceReload with the auto-reload flag and Auto with the auto-handle     *)
(* flag; both flags together are rejected and give no mode; and no step of *)
(* staging or of a pass changes the mode.                                  *)
(***************************************************************************)
C26_ModeFixedByFlags ==
    /\ []ModeFollowsFlags
    /\ [][InPass => (handler_mode' = handler_mode /\ args' = args)]_vars

C26_Witness ==
    /\ pc = "upsert"
    /\ args = Flags(TRUE, FALSE)
    /\ handler_mode = "ForceReload"
    /\ cur_conflict.some

\* The descriptor of the file can be constructed.
WellFormed(file) == TomlFromStr(file).some /\ VersionParse(file.extension_version).some

\* ExtensionManager::new has ended, with a manager or without.
ConstructionOver == pc \notin {"idle", "new"}

(***************************************************************************)
(* C27: when ExtensionManager::new has gone through the directory, a file  *)
(* whose descriptor cannot be constructed (malformed version string,       *)
(* missing field) has not kept the other files from being parsed and       *)
(* staged: every well-formed file's extension id is staged.                *)
(***************************************************************************)
C27_BadFileDoesNotStopOthers ==
    ConstructionOver =>
        \A file \in catalog :
            WellFormed(file) => file.extension_id \in StagedIds(staged_extensions)

\* No two verdicts of the list carry the same id.
NoTwoVerdictsShareId(list) ==
    \A i \in DOMAIN list : \A j \in DOMAIN list : list[i].id = list[j].id => i = j

\* What the call left of the loaded list: on a match the list without the one
\* entry of the staged id, every other entry in its place and order; without
\* a match the list as it was.
RemovalEffect ==
    LET id == StagedId(idx')
        matching == {i \in DOMAIN loaded_extensions : loaded_extensions[i].id = id}
    IN  IF decisions'[idx'].conflict.some
        THEN \E i \in matching :
                 /\ Len(loaded_extensions') = Len(loaded_extensions) - 1
                 /\ \A j \in 1..(i - 1) : loaded_extensions'[j] = loaded_extensions[j]
                 /\ \A j \in i..Len(loaded_extensions') :
                        loaded_extensions'[j] = loaded_extensions[j + 1]
                 /\ \A j \in DOMAIN loaded_extensions' : loaded_extensions'[j].id # id
        ELSE loaded_extensions' = loaded_extensions

(***************************************************************************)
(* C29: on a match LoadConflict::new removes exactly the matching entry    *)
(* from the loaded list and keeps every other entry in its order; hence in *)
(* one pass no loaded extension yields two verdicts, and neither the       *)
(* conflict list while it is built nor the list load_extensions returns    *)
(* holds two verdicts with the same id.                                    *)
(***************************************************************************)
C29_RemovesExactlyTheMatch ==
    /\ [](/\ NoTwoVerdictsShareId(conflicts)
          /\ NoTwoVerdictsShareId(
                 [i \in 1..Len(SelectSeq(decisions, LAMBDA d : d.conflict.some)) |->
                     SelectSeq(decisions, LAMBDA d : d.conflict.some)[i].conflict.value])
          /\ outcome.kind = "ok" => NoTwoVerdictsShareId(outcome.conflicts))
    /\ [][ClassifyCall => RemovalEffect]_vars

C29_Witness ==
    /\ pc = "done"
    /\ outcome.kind = "ok"
    /\ Len(outcome.conflicts) = 2
    /\ StagedId(1) = "e2"
    /\ ListExtensions(db_at_start) = Some(<<MetadataFromRecord(db_at_start.extensions["e1"]).value,
                                            MetadataFromRecord(db_at_start.extensions["e2"]).value>>)
    /\ loaded_extensions = <<>>

(***************************************************************************)
(* C30: the removal on a match does not change what a pass does.  At every *)
(* turn of the loop the verdict the classifier gives against the shrinking *)
(* loaded list is the verdict it gives against the list as it was listed   *)
(* at the start of the pass, from which nothing is removed; the decisions, *)
(* the conflict list and the store requests of the pass are determined by  *)
(* these verdicts, so the pass without removal ends with the same          *)
(* verdicts, decisions and store.                                          *)
(***************************************************************************)
C30_RemovalNotNeeded ==
    [][ClassifyCall =>
          LET listed == ListExtensions(db_at_start).value
              kept == LoadConflictNew(staged_extensions[idx'], listed).conflict
              d == Decide(handler_mode, staged_extensions[idx'], listed)
          IN  /\ decisions'[idx'].conflict = kept
              /\ decisions'[idx'].decision = d.decision
              /\ should_crash' = (should_crash \/ d.fatal)
              /\ conflicts' = IF kept.some /\ d.decision = "skip"
                              THEN Append(conflicts, kept.value)
                              ELSE conflicts]_vars

C30_Witness ==
    /\ pc = "classify"
    /\ idx = 2
    /\ Len(ListExtensions(db_at_start).value) = 2
    /\ loaded_extensions = <<>>
    /\ decisions[1].conflict.some
    /\ decisions[2].conflict.some
    /\ StagedId(2) = "e1"

\* No manufacturer, category or device of the store names the extension as an
\* owner, and every device the extension owned alone before is gone.
NoTraceOf(before, after, extension_id) ==
    /\ \A k \in Kinds : OwnedKeys(after, k, extension_id) = {}
    /\ \A key \in DOMAIN before.devices :
           before.devices[key].extensions = {Link(extension_id)} => key \notin DOMAIN after.devices

(***************************************************************************)
(* C31: when unload_extension(E) has returned Ok, called directly or by a  *)
(* reload, no manufacturer, category or device record names E among its    *)
(* owners: the devices E owned alone are deleted and E is taken out of the *)
(* owners of every other record.                                           *)
(***************************************************************************)
C31_UnloadLeavesNoOwnership ==
    /\ JustUnloaded => NoTraceOf(db_at_start, db, outcome.id)
    /\ JustUnloadedForReload => NoTraceOf(db_at_classify, db, Current.metadata.id)

C31_Witness ==
    /\ JustUnloadedForReload
    /\ Current.metadata.id = "e1"
    /\ "d1" \in DOMAIN db_at_classify.devices
    /\ db_at_classify.devices["d1"].extensions = {Link("e1"), Link("e2")}
    /\ db.devices["d1"].extensions = {Link("e2")}
    /\ "m1" \in DOMAIN db_at_classify.device_manufacturers
    /\ db_at_classify.device_manufacturers["m1"].extensions = {Link("e1")}
    /\ "m1" \notin DOMAIN db.device_manufacturers

\* The unload of the extension changed nothing that is not the extension's:
\* the other metadata records and the records it does not own are as before,
\* and no record was added.
UnloadFrame(before, after, extension_id) ==
    /\ DOMAIN after.extensions = DOMAIN before.extensions \ {extension_id}
    /\ \A key \in DOMAIN after.extensions : after.extensions[key] = before.extensions[key]
    /\ \A k \in Kinds :
           /\ DOMAIN TableOf(after, k) \subseteq DOMAIN TableOf(before, k)
           /\ \A key \in DOMAIN TableOf(before, k) :
                  Link(extension_id) \notin TableOf(before, k)[key].extensions =>
                      /\ key \in DOMAIN TableOf(after, k)
                      /\ TableOf(after, k)[key] = TableOf(before, k)[key]

(***************************************************************************)
(* C34: unload_extension(E) leaves every metadata record other than E's,   *)
(* and every manufacturer, category and device whose owners do not include *)
(* E, as they were: they exist before and after with the same fields and   *)
(* owners, and the unload adds no record.                                  *)
(***************************************************************************)
C34_UnloadFrame ==
    /\ JustUnloaded => UnloadFrame(db_at_start, db, outcome.id)
    /\ JustUnloadedForReload => UnloadFrame(db_at_classify, db, Current.metadata.id)

C34_Witness ==
    /\ JustUnloaded
    /\ outcome.id = "e1"
    /\ DOMAIN db_at_start.extensions = {"e1", "e2"}
    /\ DOMAIN db.extensions = {"e2"}
    /\ "m2" \in DOMAIN db_at_start.device_manufacturers
    /\ db_at_start.device_manufacturers["m2"].extensions = {Link("e1")}
    /\ "m1" \in DOMAIN db_at_start.device_manufacturers
    /\ db_at_start.device_manufacturers["m1"].extensions = {Link("e2")}
    /\ DOMAIN db.device_manufacturers = {"m1"}
    /\ db.device_manufacturers["m1"] = db_at_start.device_manufacturers["m1"]

\* Every owner a manufacturer, category or device record names has a
\* metadata record in the extensions table.
OwnersAreLoaded(d) ==
    \A k \in Kinds : \A key \in DOMAIN TableOf(d, k) :
        \A owner \in TableOf(d, k)[key].extensions :
            /\ owner.tb = EXTENSION_TABLE_NAME
            /\ IdFromThing(owner) \in DOMAIN d.extensions

(***************************************************************************)
(* C32: in every store state that a sequence of successful loads, unloads  *)
(* and reloads reaches, between the operations and within a load, every    *)
(* extension id named in the owners of a manufacturer, category or device  *)
(* has a metadata record: owners are loaded extensions.                    *)
(***************************************************************************)
C32_OwnersAreLoaded == OwnersAreLoaded(db)

C32_Witness ==
    /\ JustUnloaded
    /\ outcome.id = "e1"
    /\ "d1" \in DOMAIN db_at_start.devices
    /\ db_at_start.devices["d1"].extensions = {Link("e1"), Link("e2")}
    /\ db.devices["d1"].extensions = {Link("e2")}
    /\ DOMAIN db.extensions = {"e2"}

\* Every stored device refers to a stored manufacturer and a stored category.
RefsIntact(d) ==
    \A key \in DOMAIN d.devices :
        /\ IdFromThing(d.devices[key].manufacturer) \in DOMAIN d.device_manufacturers
        /\ IdFromThing(d.devices[key].category) \in DOMAIN d.device_categories

\* The manufacturers and categories the devices of the extension refer to
\* are stored, or are contributed by the extension itself (and so upserted
\* before its devices).
DeviceRefsAvailable(d, extension) ==
    \A i \in DOMAIN extension.devices :
        /\ extension.devices[i].manufacturer \in
               DOMAIN d.device_manufacturers \cup ContributedIds(extension, "manufacturers")
        /\ extension.devices[i].category \in
               DOMAIN d.device_categories \cup ContributedIds(extension, "categories")

(***************************************************************************)
(* C33: loads, unloads and reloads keep the references of the devices      *)
(* intact.  Starting from a store in which every device refers to a stored *)
(* manufacturer and category, this is again so after an unload (direct or  *)
(* within a reload), and after the load of an extension whose devices      *)
(* refer to manufacturers and categories that are available to it.         *)
(***************************************************************************)
C33_ReferencesIntact ==
    /\ (JustUnloaded /\ RefsIntact(db_at_start)) => RefsIntact(db)
    /\ (JustUnloadedForReload /\ RefsIntact(db_at_classify)) => RefsIntact(db)
    /\ (JustLoaded /\ RefsIntact(db_at_load) /\ DeviceRefsAvailable(db_at_load, Current)) =>
           RefsIntact(db)

\* The positions of the staged extensions whose id had a metadata record
\* when the pass began, in staging order.
ConflictingPositions ==
    SelectSeq([i \in 1..Len(staged_extensions) |-> i], LAMBDA i : LoadedAtStart(i))

\* One verdict for each of them, in that order.
ExpectedVerdicts ==
    [j \in DOMAIN ConflictingPositions |->
        [id |-> StagedId(ConflictingPositions[j]),
         same_version |-> SameVersionAtStart(ConflictingPositions[j])]]

\* load_extensions has returned Ok(conflicts).
ReturnedNormally == pc = "done" /\ outcome.kind = "ok"

(***************************************************************************)
(* C35: the list load_extensions returns with Ok holds exactly one verdict *)
(* for each staged extension whose id was in the store when the pass       *)
(* began, in staging order, whether the extension was skipped or reloaded, *)
(* and no verdict for a staged extension whose id was not in the store.    *)
(***************************************************************************)
C35_ReturnedVerdicts ==
    ReturnedNormally =>
        /\ outcome.conflicts = ExpectedVerdicts
        /\ \A i \in DOMAIN staged_extensions :
               Cardinality({j \in DOMAIN outcome.conflicts : outcome.conflicts[j].id = StagedId(i)})
                   = IF LoadedAtStart(i) THEN 1 ELSE 0

C35_Witness ==
    /\ ReturnedNormally
    /\ Len(staged_extensions) = 2
    /\ Len(outcome.conflicts) = 2
    /\ decisions[1].decision = "reload"
    /\ decisions[2].decision = "skip"
    /\ outcome.conflicts[1].id = StagedId(1)
    /\ outcome.conflicts[2].id = StagedId(2)

\* load_extensions has returned the error of the named store request.
ReturnedErr(request) == pc = "done" /\ outcome = ReturnErr(request)

\* The pass was reloading the staged extension it had taken last.
Reloading == idx \in DOMAIN decisions /\ decisions[idx].decision = "reload"

(***************************************************************************)
(* C36: reload_extension unloads before it loads.  The load of a reload    *)
(* starts from the store the unload left; when the unload fails, the load  *)
(* is not attempted and the store is as it was; when the unload succeeded  *)
(* and the creation of the metadata record then fails, the error is        *)
(* returned and the store holds neither the old nor the new version of the *)
(* extension: no metadata record of the id and no entity it owns.          *)
(***************************************************************************)
C36_ReloadUnloadsThenLoads ==
    /\ (pc \in {"upsert", "loaded"} /\ cur_conflict.some) =>
           /\ UnloadedFrom(db_at_classify, db_at_load, Current.metadata.id)
           /\ \A k \in Kinds : OwnedKeys(db_at_load, k, Current.metadata.id) = {}
    /\ ReturnedErr("unload_extension") =>
           /\ Reloading
           /\ db = db_at_classify
           /\ Current.metadata.id \in DOMAIN db.extensions
           /\ Current.metadata.id \notin writers
    /\ (ReturnedErr("create_metadata") /\ Reloading) =>
           /\ Current.metadata.id \in DOMAIN db_at_classify.extensions
           /\ Current.metadata.id \notin DOMAIN db.extensions
           /\ UnloadedFrom(db_at_classify, db, Current.metadata.id)
           /\ \A k \in Kinds : OwnedKeys(db, k, Current.metadata.id) = {}
           /\ db = db_at_load

C36_Witness ==
    /\ ReturnedErr("create_metadata")
    /\ Reloading
    /\ Current.metadata.id = "e1"
    /\ "d1" \in OwnedKeys(db_at_classify, "devices", "e1")
    /\ db_at_classify.extensions["e1"].version = VersionToString(<<1, 0, 0>>)
    /\ Current.metadata.version = <<1, 0, 1>>
    /\ "e1" \notin DOMAIN db.extensions
    /\ "d1" \notin DOMAIN db.devices

\* The step is a failing store request of load_extensions itself: the
\* listing, the unload of a reload or the metadata creation of a load.
PassRequestFails == pc \in {"staging", "unload", "load"} /\ faults' = faults + 1

\* The request a pass issues at each of these points.
RequestAt(at) ==
    CASE at = "staging" -> "list_extensions"
      [] at = "unload" -> "unload_extension"
      [] at = "load" -> "create_metadata"

\* The ids of the staged extensions the loop has taken so far.
TakenIds == {StagedId(i) : i \in 1..idx}

(***************************************************************************)
(* C37: when a store request of load_extensions fails (the listing, the    *)
(* metadata creation of a load, the unload of a reload), load_extensions   *)
(* returns that error in the same step.  Nothing is written by the failed  *)
(* request, no staged extension after the current one is classified or     *)
(* written, and a should_crash set earlier in the pass does not end the    *)
(* process: the outcome is the error, not stop(5).                         *)
(***************************************************************************)
C37_StoreErrorReturnsAtOnce ==
    /\ []((pc = "done" /\ outcome.kind = "err") =>
              /\ Len(decisions) = idx
              /\ idx <= Len(staged_extensions)
              /\ writers \subseteq TakenIds
              /\ \A i \in (idx + 1)..Len(staged_extensions) :
                     ~LoadedAtStart(i) => StagedId(i) \notin DOMAIN db.extensions)
    /\ [][PassRequestFails =>
              /\ pc' = "done"
              /\ outcome' = [kind |-> "err", request |-> RequestAt(pc)]
              /\ db' = db
              /\ idx' = idx
              /\ decisions' = decisions
              /\ conflicts' = conflicts]_vars
    /\ [][(pc = "done" /\ outcome.kind = "err") => pc' \notin {"classify", "unload", "load", "upsert", "loaded"}]_vars

C37_Witness ==
    /\ pc = "done"
    /\ outcome = ReturnErr("create_metadata")
    /\ should_crash
    /\ handler_mode = "Manual"
    /\ idx = 2
    /\ decisions[1].decision = "skip"
    /\ decisions[2].decision = "load"
    /\ StagedId(2) \notin DOMAIN db.extensions

\* The store differs from `before` in the metadata record of the extension
\* and in nothing else.
OnlyMetadataAdded(before, after, extension) ==
    /\ extension.metadata.id \notin DOMAIN before.extensions
    /\ HoldsMetadataOf(after, extension)
    /\ DOMAIN after.extensions = DOMAIN before.extensions \cup {extension.metadata.id}
    /\ \A key \in DOMAIN before.extensions : after.extensions[key] = before.extensions[key]
    /\ \A k \in Kinds : TableOf(after, k) = TableOf(before, k)

(***************************************************************************)
(* C38: load_extension creates the metadata record of the extension before *)
(* it writes any entity: the step that starts the upserts adds the         *)
(* metadata record and nothing else, and the record is there during every  *)
(* upsert.  When the creation of the metadata record fails, load_extension *)
(* returns the error and no manufacturer, category or device of the        *)
(* extension has been written or merged: the store is as the load found it.*)
(***************************************************************************)
C38_MetadataBeforeEntities ==
    /\ [](/\ pc \in {"upsert", "loaded"} => HoldsMetadataOf(db, Current)
          /\ pc = "load" => db = db_at_load
          /\ ReturnedErr("create_metadata") =>
                 /\ db = db_at_load
                 /\ Current.metadata.id \notin DOMAIN db.extensions
                 /\ \A k \in Kinds : OwnedKeys(db, k, Current.metadata.id) = {}
                 /\ tasks = <<>>)
    /\ [][(pc = "load" /\ pc' = "upsert") => OnlyMetadataAdded(db, db', Current)]_vars
    /\ [][(pc = "load" /\ pc' # "load") => pc' \in {"upsert", "done"}]_vars

C38_Witness ==
    /\ ReturnedErr("create_metadata")
    /\ ~Reloading
    /\ Current.metadata.id = "e2"
    /\ Current.device_manufacturers # <<>>
    /\ "m1" \in DOMAIN db.device_manufacturers
    /\ db.device_manufacturers["m1"].extensions = {Link("e1")}
    /\ db = db_at_load

====
